---- MODULE Spec2Model ----
(***************************************************************************)
(* A model of the five browser games of react-ai-games: Snake, Flappy      *)
(* Bird, Match-Three, Space Invaders and Pixel Runner.  Each game is one   *)
(* React page component; `page` is the component that is mounted, and a    *)
(* game's handlers run only while its page is mounted.                     *)
(*                                                                         *)
(* Conventions                                                             *)
(*  - React state and the ref that mirrors it (gameState / stateRef,       *)
(*    settings / settingsRef) are one variable: the handlers that change   *)
(*    them run in discrete events, whose render and effects React flushes  *)
(*    before the next event.                                               *)
(*  - `last` is a history variable: the name of the handler that took the  *)
(*    last step.  Snake's direction input, Pixel Runner's jump input and   *)
(*    the handlers of Match-Three leave it as it is.  The program has no   *)
(*    such field.                                                          *)
(*  - Time is relative: a frame draws the time elapsed since the previous  *)
(*    frame, never an absolute clock.                                      *)
(***************************************************************************)
EXTENDS Integers, Sequences, FiniteSets, TLC

(***************************************************************************)
(* Bounds of the model                                                     *)
(***************************************************************************)
\* Snake: cells per row and column (the presets use 15, 20 and 25).
SnakeGrid == 4
\* Snake: a tick that would eat is not taken once the score reached this.
SnakeMaxScore == 1
\* Snake: the values of Math.random() that spawnFood draws from.
SnakeRandoms == 3
\* The end-to-end scenario lets the head move this many cells away from the
\* centre of the board, in x and in y.
ScnReach == 4
\* Match-Three: cells per row and column (the presets use 7, 8 and 9).
M3Size == 3
\* Match-Three: gem types (the presets use 5, 6 and 7).
M3GemTypes == 3
\* Match-Three: the time limit in quarters of a second (the presets use 120,
\* 90 and 60 seconds).
M3TimeLimit == 2
\* Match-Three: the longest time between two frames, in quarters of a second.
M3MaxElapsed == 2
\* Match-Three: a swap is not started once the score reached this.
M3SwapBelow == 1
\* Match-Three: a frame that would lift the score above this is not drawn.
M3MaxScore == 150
\* Match-Three: a cascade is not continued beyond this level.
M3MaxCascade == 2
\* Match-Three: the number of boards createBoard is let to build.
M3Boards == 4
\* Match-Three: Math.random() is let to return the values k / M3Randoms.
M3Randoms == 2
\* calcScore is tried on runs of 3 up to M3MaxRun cells.
M3MaxRun == 6
\* createBoard is called with 3 up to CbMaxTypes gem types.
CbMaxTypes == 4
\* Space Invaders and Pixel Runner: the times between two frames, in
\* milliseconds; the short one is below the cap on dt, the long one above.
FrameShort == 25
FrameLong == 75
\* Space Invaders: rows and columns of aliens (the presets use 4x6, 5x8 and
\* 5x10) and lives (4, 3 and 2).
SIRows == 1
SICols == 2
SILives == 2
\* Space Invaders: the invincibility after a hit, in milliseconds (the
\* program uses 1500).
SIInvincibleMs == 50
\* Space Invaders: enemy bullets in flight, the last wave and the highest
\* score that the model follows.
SIMaxEnemyBullets == 1
SIMaxWave == 2
SIMaxScore == 200
\* Pixel Runner: the scroll speed in pixels per second (the presets use 180,
\* 230 and 280), and the distance and the coins that the model follows.
\* The formation sub-model: the canvas is FmWidth or FmWidth + 2 pixels wide, an
\* alien FmAlienW wide with FmPadX between two aliens and FmRowPitch from row
\* to row; a step moves FmSpeed sideways or FmDrop down, FmMaxDrops times at most.
CaMaxSwaps == 1
EfRows == 2
EfCols == 2
EfMaxBullets == 2
EfMaxWave == 2
FmWidth == 25
FmAlienW == 3
FmPadX == 1
FmRowPitch == 2
FmSpeed == 2
FmDrop == 3
FmMaxDrops == 2
\* The platform sub-model: the canvas is PlWidth to PlWidth + 2 wide, platforms
\* are generated PlAhead beyond its right edge, the starting platform is
\* PlStart wide, gaps are PlGapMin..PlGapMax and platforms PlWidthMin..PlWidthMax
\* wide, and a frame scrolls by 1..PlMaxScroll.
PlWidth == 10
PlAhead == 4
PlStart == 3
PlGapMin == 1
PlGapMax == 3
PlWidthMin == 2
PlWidthMax == 4
PlMaxScroll == 8
PRSpeed == 200
PRMaxDistance == 20
PRMaxCoins == 1
\* Snake, the session: a slider of the custom settings is dragged SsOver
\* beyond either end of its range; the timers the model counts.
SsOver == 1
SsMaxTimers == 3
\* Flappy Bird: a pipe is spawned every FlSpawnInterval frames (the program
\* uses 100) and the model follows FlMaxFrames frames of a run.  The canvas
\* is 0, FlWidth or 2 * FlWidth wide; a pipe is FlPipeWidth wide (60), moves
\* FlPipeSpeed a frame (2.8) and is kept until it is FlCapPx (8) beyond the
\* left edge.
FlSpawnInterval == 2
FlMaxFrames == 8
FlWidth == 4
FlPipeWidth == 1
FlPipeSpeed == 2
FlCapPx == 1

(***************************************************************************)
(* localStorage and number conversions shared by the games                 *)
(***************************************************************************)
\* getItem returned null: the key was never written.
NullItem == 0 - 1
\* The stored text is not a decimal number.
JunkItem == 0 - 2
\* The value NaN.
NaN == 0 - 3

\* parseInt(text, 10) of a stored text: a decimal text n is the number n.
ParseInt(s) == IF s = JunkItem THEN NaN ELSE s

\* a > b on numbers: false as soon as one side is NaN.
JsGt(a, b) == a # NaN /\ b # NaN /\ a > b

\* `saved ? parseInt(saved, 10) : 0`, the initial value of `best`.
InitialBest(s) == IF s = NullItem THEN 0 ELSE ParseInt(s)

\* parseInt(localStorage.getItem(key) || "0", 10)
StoredBest(s) == IF s = NullItem THEN 0 ELSE ParseInt(s)

\* What localStorage holds when a page is opened.
InitialItems == {NullItem}

\* a % b of JavaScript for b > 0: the sign follows the dividend.
JsRem(a, b) == IF a >= 0 THEN a % b ELSE 0 - ((0 - a) % b)

\* Match-Three: `dt < 0.5`, in quarters of a second.
M3DtLimit == 2

\* Space Invaders and Pixel Runner: the cap on dt, 0.05 s, in milliseconds.
FrameCap == 50

FrameTimes == {FrameShort, FrameLong}

\* Flappy Bird: GRAVITY (0.45) and FLAP_STRENGTH (-7.5), in hundredths.
GRAVITY == 45
FLAP_STRENGTH == 0 - 750

Pages == {"snake", "flappy", "match3", "invaders", "runner"}

VARIABLES
    page,          \* the mounted page component
    last,          \* history: the handler that took the last step
    \* ---- Snake ----
    snakeState,    \* stateRef / gameState
    snakeSettings, \* settings / settingsRef
    snakeDifficulty,
    snake,         \* snakeRef: the body, head first
    food,          \* foodRef
    dir,           \* dirRef: the committed direction
    nextDir,       \* nextDirRef: the buffered direction
    snakeScore,    \* scoreRef
    snakeBest,     \* best (React state)
    snakeStored,   \* localStorage 'snake-best'
    snakeInterval  \* the tick interval of setInterval is live

snakeVars == <<snakeState, snakeSettings, snakeDifficulty, snake, food, dir,
               nextDir, snakeScore, snakeBest, snakeStored, snakeInterval>>

\* ---- Match-Three ----
VARIABLES
    m3State,      \* stateRef / gameState
    m3Grid,       \* game.grid
    m3Score,      \* game.score
    m3Time,       \* game.timeRemaining
    m3Cascade,    \* game.cascadeLevel
    m3Selected,   \* game.selected
    m3Anim,       \* game.animState
    m3SwapFrom,   \* game.swapFrom
    m3SwapTo,     \* game.swapTo
    m3Matched,    \* game.matchedCells
    m3LastTick,   \* game.lastTickTime > 0
    m3Best,       \* best (React state)
    m3Stored      \* localStorage 'match3-best'

m3Vars == <<m3State, m3Grid, m3Score, m3Time, m3Cascade, m3Selected, m3Anim,
            m3SwapFrom, m3SwapTo, m3Matched, m3LastTick, m3Best, m3Stored>>

\* ---- Space Invaders ----
VARIABLES
    siState,      \* stateRef / gameState
    siScore,      \* game.score
    siLives,      \* game.lives
    siWave,       \* game.wave
    siAliens,     \* game.aliens: the alive flag of each alien
    siAlienCount, \* game.alienCount
    siUfo,        \* game.ufo.active
    siPBullets,   \* the number of the player's bullets in game.bullets
    siEBullets,   \* the number of enemy bullets in game.bullets
    siInvLeft,    \* game.invincibleUntil, relative to the most recent frame
    siLastTime,   \* lastTimeRef > 0
    siDt,         \* history: dt of the most recent frame, in milliseconds
    siBest,       \* best (React state)
    siStored      \* localStorage 'space-invaders-best'

siWorld == <<siScore, siLives, siWave, siAliens, siAlienCount, siUfo, siPBullets,
             siEBullets>>

siVars == <<siState, siWorld, siInvLeft, siLastTime, siDt, siBest, siStored>>

\* ---- Pixel Runner ----
VARIABLES
    prState,       \* stateRef / gameState
    prDistance,    \* game.distance
    prCoins,       \* game.coinCount
    prJumpsLeft,   \* game.player.jumpsLeft
    prJumpPressed, \* game.jumpPressed
    prLastTime,    \* lastTimeRef > 0
    prDt,          \* history: dt of the most recent frame, in milliseconds
    prFrameEv,     \* history: the most recent frame executed a "jump" (vy =
                   \* JUMP_VELOCITY), found a landing ("land"), dropped a
                   \* press for want of a jump ("refused") or did "none" of these
    prBest,        \* best (React state)
    prStored       \* localStorage 'pixel-runner-best'

prWorld == <<prDistance, prCoins, prJumpsLeft, prJumpPressed>>

prVars == <<prState, prWorld, prLastTime, prDt, prFrameEv, prBest, prStored>>

\* ---- Flappy Bird ----
VARIABLES
    flState,     \* stateRef / gameState
    flVelocity,  \* birdRef.current.velocity
    flFrame,     \* frameRef
    flPipes,     \* pipesRef
    flScore,     \* scoreRef
    flBest,      \* best (React state)
    flStored,    \* localStorage 'flappy-best'
    flW,         \* canvas.width
    flBirdX,     \* birdRef.current.x
    flGone       \* history: the pipes removed in this run, by scored flag

flVars == <<flState, flVelocity, flFrame, flPipes, flScore, flBest, flStored,
            flW, flBirdX, flGone>>

\* ---- createBoard, one call of it ----
VARIABLES
    cbGrid,      \* g: the cells filled so far, row after row
    cbTypes      \* types

cbVars == <<cbGrid, cbTypes>>

\* ---- Space Invaders, the formation and its steps ----
VARIABLES
    fmW,         \* w: the width of the canvas
    fmAliens,    \* game.aliens: x, y and alive of each alien
    fmDir        \* game.alienDir

fmVars == <<fmW, fmAliens, fmDir>>

\* ---- Pixel Runner, the platform generation passes ----
VARIABLES
    plW,         \* w: the width of the canvas
    plRight,     \* lastRight: the rightmost platform edge
    plPc         \* "generating" inside the while loop of a pass, else "done"

plVars == <<plW, plRight, plPc>>

\* The state of the sub-models, which no page handler touches.
\* ---- Snake: the session, its settings and its timers ----
VARIABLES
    ssState,       \* stateRef
    ssCommitted,   \* gameState of the last commit whose effects have run
    ssDifficulty,  \* difficulty
    ssSettings,    \* settings / settingsRef
    ssTimers       \* the interval timers and the frame callbacks scheduled

ssVars == <<ssState, ssCommitted, ssDifficulty, ssSettings, ssTimers>>

\* ---- Match-Three: one call of applyGravity, one call of wouldMatch ----
VARIABLES
    agGrid,   \* grid, the argument of applyGravity
    agNew,    \* newGrid
    agFall,   \* fallData
    agCol,    \* c, the column the outer for loop is at
    wmGrid,   \* grid, the board wouldMatch and findValidMove are given
    wmOut     \* what the last call returned

agVars == <<agGrid, agNew, agFall, agCol>>
wmVars == <<wmGrid, wmOut>>

\* ---- Space Invaders: the aliens, the enemy fire and the kills ----
VARIABLES
    efAlive,    \* a.alive of each alien of game.aliens
    efCount,    \* game.alienCount
    efWave,     \* game.wave
    efEnemy,    \* the enemy bullets in game.bullets
    efShooter,  \* the alien the latest enemy bullet was spawned at, or 0
    efPlayer    \* the player bullets in game.bullets

efVars == <<efAlive, efCount, efWave, efEnemy, efShooter, efPlayer>>

\* ---- Space Invaders and Pixel Runner: the deferred initialisation ----
VARIABLES
    diState,      \* stateRef
    diCommitted,  \* gameState of the last commit whose effects have run
    diNeedsInit,  \* needsInitRef
    diLastTime,   \* lastTimeRef is greater than 0
    diStale,      \* gameRef holds the world of the run before the last start
    diFramed,     \* a frame has run since the commit that is pending was asked for
    diDt          \* dt of the update of the latest frame, 0 if it had none

diVars == <<diState, diCommitted, diNeedsInit, diLastTime, diStale, diFramed, diDt>>

\* ---- Match-Three: the animation of a swap and its cascade ----
VARIABLES
    caAnim,     \* game.animState
    caGrid,     \* game.grid
    caMatched,  \* game.matchedCells
    caFrom,     \* game.swapFrom
    caTo,       \* game.swapTo
    caSwaps     \* the swaps begun so far

caVars == <<caAnim, caGrid, caMatched, caFrom, caTo, caSwaps>>

fnVars == <<agVars, wmVars, efVars, diVars, caVars>>

subVars == <<cbVars, fmVars, plVars, ssVars, fnVars>>

vars == <<page, last, snakeVars, m3Vars, siVars, prVars, flVars, subVars>>

\* A page is mounted, and the state of the other pages is out of reach of
\* its handlers.
SnakePage == page = "snake" /\ UNCHANGED <<m3Vars, siVars, prVars, flVars, subVars>>
M3Page == page = "match3" /\ UNCHANGED <<snakeVars, siVars, prVars, flVars, subVars>>
SIPage == page = "invaders" /\ UNCHANGED <<snakeVars, m3Vars, prVars, flVars, subVars>>
PRPage == page = "runner" /\ UNCHANGED <<snakeVars, m3Vars, siVars, flVars, subVars>>
FlPage == page = "flappy" /\ UNCHANGED <<snakeVars, m3Vars, siVars, prVars, subVars>>

(***************************************************************************)
(* Snake                                                                   *)
(***************************************************************************)
Directions == {"up", "down", "left", "right"}

DIRECTION_VECTORS(d) ==
    CASE d = "up"    -> [x |-> 0, y |-> 0 - 1]
      [] d = "down"  -> [x |-> 0, y |-> 1]
      [] d = "left"  -> [x |-> 0 - 1, y |-> 0]
      [] d = "right" -> [x |-> 1, y |-> 0]

Opposite(d) ==
    CASE d = "up"    -> "down"
      [] d = "down"  -> "up"
      [] d = "left"  -> "right"
      [] d = "right" -> "left"

\* The presets, with the grid scaled to the model's SnakeGrid.
SnakePresets(d) ==
    CASE d = "easy"   -> [speed |-> 8,  gridSize |-> SnakeGrid, wallTeleport |-> TRUE]
      [] d = "medium" -> [speed |-> 12, gridSize |-> SnakeGrid, wallTeleport |-> FALSE]
      [] d = "hard"   -> [speed |-> 18, gridSize |-> SnakeGrid, wallTeleport |-> FALSE]

\* The difficulty buttons the model presses.
SnakeDifficulties == {"easy", "medium"}

SnakeCells(s) == {s[i] : i \in 1..Len(s)}

\* spawnFood: the free cells, in the order of its two loops (x outer, y inner).
SnakeFree(gridSize, s) ==
    LET all == [k \in 1..(gridSize * gridSize) |->
                   [x |-> (k - 1) \div gridSize, y |-> (k - 1) % gridSize]]
        occupied == SnakeCells(s)
    IN  SelectSeq(all, LAMBDA p : p \notin occupied)

\* A mutant of spawnFood: a cell of the grid, free or not.
spawnFood_AnyCell(gridSize, s) ==
    {[x |-> k \div gridSize, y |-> k % gridSize] : k \in 0..(gridSize * gridSize - 1)}

\* spawnFood: free[Math.floor(Math.random() * free.length)], with Math.random()
\* returning one of 0, 1/SnakeRandoms, ..., (SnakeRandoms - 1)/SnakeRandoms.
spawnFood(gridSize, s) ==
    LET free == SnakeFree(gridSize, s)
    IN  IF Len(free) > 0
          THEN {free[((k * Len(free)) \div SnakeRandoms) + 1] : k \in 0..(SnakeRandoms - 1)}
          ELSE {[x |-> 0, y |-> 0]}

\* initGame: the body it builds.
InitialSnake(gs) ==
    LET mid == gs \div 2
    IN  << [x |-> mid, y |-> mid], [x |-> mid - 1, y |-> mid],
           [x |-> mid - 2, y |-> mid] >>

\* A mutant of SnakeInitGame: the score of the last run is kept.
SnakeInitGame_KeepScore ==
    /\ snake' = InitialSnake(snakeSettings.gridSize)
    /\ dir' = "right"
    /\ nextDir' = "right"
    /\ snakeScore' = snakeScore
    /\ food' \in spawnFood(snakeSettings.gridSize, snake')

SnakeInitGame ==
    /\ snake' = InitialSnake(snakeSettings.gridSize)
    /\ dir' = "right"
    /\ nextDir' = "right"
    /\ snakeScore' = 0
    /\ food' \in spawnFood(snakeSettings.gridSize, snake')

SnakeSelectDifficulty(d) ==
    /\ SnakePage /\ snakeState = "menu"
    /\ snakeDifficulty' = d
    /\ snakeSettings' = IF d # "custom" THEN SnakePresets(d) ELSE snakeSettings
    /\ last' = "SnakeSelectDifficulty"
    /\ UNCHANGED <<page, snakeState, snake, food, dir, nextDir, snakeScore,
                   snakeBest, snakeStored, snakeInterval>>

SnakeStartGame ==
    /\ SnakePage /\ snakeState = "menu"
    /\ SnakeInitGame
    /\ snakeState' = "playing"
    /\ snakeInterval' = TRUE
    /\ last' = "SnakeStartGame"
    /\ UNCHANGED <<page, snakeSettings, snakeDifficulty, snakeBest, snakeStored>>

\* A mutant of SnakeNextPause: pausing leaves the run for the menu.
SnakeNextPause_ToMenu(st) ==
    IF st = "playing" THEN "menu"
    ELSE IF st = "paused" THEN "playing" ELSE st

\* togglePause: the Pause and Resume buttons and the Space and Escape keys.
SnakeNextPause(st) ==
    IF st = "playing" THEN "paused"
    ELSE IF st = "paused" THEN "playing" ELSE st

SnakeTogglePause ==
    /\ SnakePage /\ snakeState \in {"playing", "paused"}
    /\ snakeState' = SnakeNextPause(snakeState)
    /\ last' = "SnakeTogglePause"
    /\ UNCHANGED <<page, snakeSettings, snakeDifficulty, snake, food, dir, nextDir,
                   snakeScore, snakeBest, snakeStored, snakeInterval>>

\* backToMenu: offered on the paused and the game-over overlays.
SnakeBackToMenu ==
    /\ SnakePage /\ snakeState \in {"paused", "gameover"}
    /\ snakeState' = "menu"
    /\ snakeInterval' = FALSE
    /\ last' = "SnakeBackToMenu"
    /\ UNCHANGED <<page, snakeSettings, snakeDifficulty, snake, food, dir, nextDir,
                   snakeScore, snakeBest, snakeStored>>

SnakePlayAgain ==
    /\ SnakePage /\ snakeState = "gameover"
    /\ SnakeInitGame
    /\ snakeState' = "playing"
    /\ snakeInterval' = TRUE
    /\ last' = "SnakePlayAgain"
    /\ UNCHANGED <<page, snakeSettings, snakeDifficulty, snakeBest, snakeStored>>

\* A mutant of SnakeBuffer: the wanted direction is tested against the
\* buffered direction, not against the committed one.
SnakeBuffer_AgainstBuffered(cur, want, buffered) ==
    IF buffered # Opposite(want) THEN want ELSE buffered

\* onKey (arrow keys, WASD) and onTouchEnd (swipes): buffer a direction.
SnakeBuffer(cur, want, buffered) == IF cur # Opposite(want) THEN want ELSE buffered

SnakeOnKey(d) ==
    /\ SnakePage /\ snakeState # "menu"
    /\ nextDir' = SnakeBuffer(dir, d, nextDir)
    /\ UNCHANGED <<last, page, snakeState, snakeSettings, snakeDifficulty, snake, food,
                   dir, snakeScore, snakeBest, snakeStored, snakeInterval>>

SnakeOnTouchEnd(d) ==
    /\ SnakePage /\ snakeState # "menu"
    /\ nextDir' = SnakeBuffer(dir, d, nextDir)
    /\ UNCHANGED <<last, page, snakeState, snakeSettings, snakeDifficulty, snake, food,
                   dir, snakeScore, snakeBest, snakeStored, snakeInterval>>

\* A mutant of SnakeCommitted: the tick moves in the old direction.
SnakeCommitted_Old(cur, buffered) == cur

\* tick: dirRef.current = nextDirRef.current, before the head is computed.
SnakeCommitted(cur, buffered) == buffered

\* tick: the head cell the committed direction leads to, before wall handling.
SnakeAhead(s, d) ==
    [x |-> s[1].x + DIRECTION_VECTORS(d).x, y |-> s[1].y + DIRECTION_VECTORS(d).y]

\* A mutant of SnakeWrap: the remainder alone, which keeps the dividend's sign.
SnakeWrap_RemainderOnly(p, gs) == [x |-> JsRem(p.x, gs), y |-> JsRem(p.y, gs)]

\* tick: wall teleport.
SnakeWrap(p, gs) ==
    [x |-> JsRem(JsRem(p.x, gs) + gs, gs), y |-> JsRem(JsRem(p.y, gs) + gs, gs)]

\* A mutant of SnakeOutside: the upper edge is tested one cell too far.
SnakeOutside_OffByOne(p, gs) == p.x < 0 \/ p.x > gs \/ p.y < 0 \/ p.y > gs

SnakeOutside(p, gs) == p.x < 0 \/ p.x >= gs \/ p.y < 0 \/ p.y >= gs

\* A mutant of SnakeBodyToCheck: the last two segments are left out.
SnakeBodyToCheck_Short(s, willEat) == SubSeq(s, 1, Len(s) - 2)

\* A mutant of SnakeBodyToCheck: the tail is left out on an eating tick too.
SnakeBodyToCheck_NoTail(s, willEat) == SubSeq(s, 1, Len(s) - 1)

\* tick: the body the new head is checked against.
SnakeBodyToCheck(s, willEat) == IF willEat THEN s ELSE SubSeq(s, 1, Len(s) - 1)

\* A mutant of SnakeMoved: the tail is popped on every move.
SnakeMoved_AlwaysPop(s, newHead, willEat) == <<newHead>> \o SubSeq(s, 1, Len(s) - 1)

\* tick: the body after a surviving move (unshift, then pop unless eating).
SnakeMoved(s, newHead, willEat) ==
    IF willEat THEN <<newHead>> \o s ELSE <<newHead>> \o SubSeq(s, 1, Len(s) - 1)

\* tick: the two death branches.
SnakeDie ==
    /\ snakeState' = "gameover"
    /\ IF JsGt(snakeScore, snakeBest)
         THEN snakeBest' = snakeScore /\ snakeStored' = snakeScore
         ELSE UNCHANGED <<snakeBest, snakeStored>>
    /\ UNCHANGED <<snake, food, snakeScore>>

\* A mutant of SnakeTickRuns: no early return.
SnakeTickRuns_Always(st) == TRUE

\* tick: the simulation step runs only while playing.
SnakeTickRuns(st) == st = "playing"

SnakeTick ==
    /\ SnakePage /\ snakeInterval
    /\ last' = "SnakeTick"
    /\ UNCHANGED <<page, snakeSettings, snakeDifficulty, nextDir, snakeInterval>>
    /\ IF ~SnakeTickRuns(snakeState)
         THEN UNCHANGED <<snakeState, snake, food, dir, snakeScore, snakeBest,
                          snakeStored>>
         ELSE
           LET gs == snakeSettings.gridSize
               go == SnakeCommitted(dir, nextDir)
               ahead == SnakeAhead(snake, go)
               newHead == IF snakeSettings.wallTeleport
                            THEN SnakeWrap(ahead, gs) ELSE ahead
               willEat == newHead = food
           IN  /\ dir' = go
               /\ IF ~snakeSettings.wallTeleport /\ SnakeOutside(ahead, gs)
                    THEN SnakeDie
                    ELSE IF newHead \in SnakeCells(SnakeBodyToCheck(snake, willEat))
                      THEN SnakeDie
                      ELSE IF willEat
                        THEN \* the bound of the model: a run is followed up to
                             \* SnakeMaxScore, and where the board is all but full
                             /\ \/ snakeScore < SnakeMaxScore
                                \/ Len(snake) >= gs * gs - 2
                             /\ snake' = SnakeMoved(snake, newHead, TRUE)
                             /\ snakeScore' = snakeScore + 1
                             /\ food' \in spawnFood(gs, snake')
                             /\ UNCHANGED <<snakeState, snakeBest, snakeStored>>
                        ELSE /\ snake' = SnakeMoved(snake, newHead, FALSE)
                             /\ UNCHANGED <<food, snakeScore, snakeState, snakeBest,
                                            snakeStored>>

SnakeInit ==
    /\ snakeState = "menu"
    /\ snakeDifficulty = "medium"
    /\ snakeSettings = SnakePresets("medium")
    /\ snake = << >>
    /\ food = [x |-> 0, y |-> 0]
    /\ dir = "right"
    /\ nextDir = "right"
    /\ snakeScore = 0
    /\ snakeStored \in InitialItems
    /\ snakeBest = InitialBest(snakeStored)
    /\ snakeInterval = FALSE

SnakeNext ==
    \/ \E d \in SnakeDifficulties : SnakeSelectDifficulty(d)
    \/ SnakeStartGame
    \/ SnakeTogglePause
    \/ SnakeBackToMenu
    \/ SnakePlayAgain
    \/ \E d \in Directions : SnakeOnKey(d)
    \/ \E d \in Directions : SnakeOnTouchEnd(d)
    \/ SnakeTick

\* PRESETS.medium as the source has it: the 20 x 20 board of the end-to-end
\* scenario.
ScnSettings == [speed |-> 12, gridSize |-> 20, wallTeleport |-> FALSE]

\* The head is less than ScnReach cells away from the centre of the board.
ScnNear(p) ==
    LET mid == snakeSettings.gridSize \div 2
    IN  /\ p.x - mid < ScnReach /\ mid - p.x < ScnReach
        /\ p.y - mid < ScnReach /\ mid - p.y < ScnReach

\* The interval fires while the run is on and the head is near the centre.
ScnTick == snakeState = "playing" /\ ScnNear(snake[1]) /\ SnakeTick

ScnSnakeInit ==
    /\ snakeState = "menu"
    /\ snakeDifficulty = "medium"
    /\ snakeSettings = ScnSettings
    /\ snake = << >>
    /\ food = [x |-> 0, y |-> 0]
    /\ dir = "right"
    /\ nextDir = "right"
    /\ snakeScore = 0
    /\ snakeStored \in InitialItems
    /\ snakeBest = InitialBest(snakeStored)
    /\ snakeInterval = FALSE

ScnNext ==
    \/ SnakeStartGame
    \/ SnakeTogglePause
    \/ \E d \in Directions : SnakeOnKey(d)
    \/ ScnTick

\* A lap of the board: along the top row, through the other rows to and fro
\* right of the first column, and back up the first column.  The k-th cell,
\* k in 1..gs * gs.
SnakeLap(gs, k) ==
    IF k <= gs
      THEN [x |-> k - 1, y |-> 0]
      ELSE IF k <= gs + (gs - 1) * (gs - 1)
        THEN LET j == k - gs - 1
                 r == j \div (gs - 1)
                 c == j % (gs - 1)
             IN  [x |-> IF r % 2 = 0 THEN gs - 1 - c ELSE 1 + c, y |-> r + 1]
        ELSE [x |-> 0, y |-> gs - 1 - (k - gs - (gs - 1) * (gs - 1) - 1)]

\* A run that has come to a snake two cells short of the whole board: the
\* body lies along the lap from its second cell on, the head is about to
\* enter one of the two free cells and the food is on one of them.
FullSnakeInit ==
    /\ snakeState = "playing"
    /\ snakeDifficulty \in SnakeDifficulties
    /\ snakeSettings = SnakePresets(snakeDifficulty)
    /\ snake = [i \in 1..(SnakeGrid * SnakeGrid - 2) |->
                    SnakeLap(SnakeGrid, SnakeGrid * SnakeGrid - i)]
    /\ food \in {SnakeLap(SnakeGrid, SnakeGrid * SnakeGrid), SnakeLap(SnakeGrid, 1)}
    /\ dir = "up"
    /\ nextDir = "up"
    /\ snakeScore = SnakeGrid * SnakeGrid - 5
    /\ snakeStored \in InitialItems
    /\ snakeBest = InitialBest(snakeStored)
    /\ snakeInterval = TRUE

FullNext ==
    \/ SnakeTogglePause
    \/ \E d \in Directions : SnakeOnKey(d)
    \/ SnakeTick

(***************************************************************************)
(* Match-Three                                                             *)
(*                                                                         *)
(* A board is the sequence of its cells row by row; rows and columns count *)
(* from 0 as in the program, and an emptied cell holds -1.                 *)
(* timeRemaining and the time between two frames are counted in units of   *)
(* a quarter of a second.  The difficulty menu is left out: the one preset *)
(* of the model stands for the three of the program.                       *)
(***************************************************************************)
\* The preset, scaled to the model's bounds.
M3Settings == [timeLimit |-> M3TimeLimit, gridSize |-> M3Size, gemTypes |-> M3GemTypes]

M3Gems(types) == 0..(types - 1)
M3Rows == 0..(M3Size - 1)
M3Cells == {[row |-> r, col |-> c] : r \in M3Rows, c \in M3Rows}
M3NoCell == [row |-> 0 - 1, col |-> 0 - 1]
M3Index(r, c) == r * M3Size + c + 1
M3At(g, r, c) == g[M3Index(r, c)]

\* createBoard: the loop of a cell ends with a gem that completes no run of
\* three to the left or upwards, so it can return exactly the boards with
\* no such run.
M3CreateBoardAccepts(g, types) ==
    \A r \in M3Rows, c \in M3Rows :
        /\ M3At(g, r, c) \in M3Gems(types)
        /\ ~(c >= 2 /\ M3At(g, r, c - 1) = M3At(g, r, c) /\ M3At(g, r, c - 2) = M3At(g, r, c))
        /\ ~(r >= 2 /\ M3At(g, r - 1, c) = M3At(g, r, c) /\ M3At(g, r - 2, c) = M3At(g, r, c))

\* The boards the model lets Math.random() build: diagonal stripes whose
\* first k cells are moved on by one gem type.
M3Pattern(k, types) ==
    [i \in 1..(M3Size * M3Size) |->
        (((i - 1) \div M3Size) + ((i - 1) % M3Size) + (IF i <= k THEN 1 ELSE 0)) % types]

createBoard(size, types) ==
    {g \in {M3Pattern(k, types) : k \in 0..(M3Boards - 1)} : M3CreateBoardAccepts(g, types)}

\* A row (horizontal) or a column read as a line: its k-th gem and cell.
M3Line(g, horizontal, a, k) == IF horizontal THEN M3At(g, a, k) ELSE M3At(g, k, a)
M3LineCell(horizontal, a, k) ==
    IF horizontal THEN [row |-> a, col |-> k] ELSE [row |-> k, col |-> a]

\* findMatches: one scan.  It cuts every line into its maximal runs of equal
\* gems and keeps the runs of three or more, each as the set of its cells.
M3Runs(g, horizontal) ==
    LET isRun(a, c, e) ==
            /\ e - c >= 3
            /\ M3Line(g, horizontal, a, c) >= 0
            /\ \A k \in c..(e - 1) : M3Line(g, horizontal, a, k) = M3Line(g, horizontal, a, c)
            /\ (e = M3Size \/ M3Line(g, horizontal, a, e) # M3Line(g, horizontal, a, c))
            /\ (c = 0 \/ M3Line(g, horizontal, a, c - 1) # M3Line(g, horizontal, a, c))
    IN  {{M3LineCell(horizontal, t[1], k) : k \in t[2]..(t[3] - 1)} :
            t \in {u \in M3Rows \X M3Rows \X (1..M3Size) : isRun(u[1], u[2], u[3])}}

findMatches(g) == M3Runs(g, TRUE) \cup M3Runs(g, FALSE)

getMatchedSet(matches) == UNION matches

\* calcScore: 50, 150 or 300 points for a run, times the cascade level.
M3RunPoints(len) == IF len <= 3 THEN 50 ELSE IF len = 4 THEN 150 ELSE 300

RECURSIVE M3SumPoints(_)
M3SumPoints(matches) ==
    IF matches = {} THEN 0
    ELSE LET m == CHOOSE x \in matches : TRUE
         IN  M3RunPoints(Cardinality(m)) + M3SumPoints(matches \ {m})

\* A mutant of calcScore: the cascade level does not multiply.
calcScore_Flat(matches, cascade) == M3SumPoints(matches)

calcScore(matches, cascade) == M3SumPoints(matches) * cascade

\* applyGravity: the gems of a column keep their order and sink to the
\* bottom; -1 marks the cells above them.
M3Sunk(g) ==
    [i \in 1..(M3Size * M3Size) |->
        LET r == (i - 1) \div M3Size
            c == (i - 1) % M3Size
            existing == SelectSeq([k \in 1..M3Size |-> M3At(g, M3Size - k, c)],
                                  LAMBDA t : t >= 0)
        IN  IF M3Size - r <= Len(existing) THEN existing[M3Size - r] ELSE 0 - 1]

\* randomGem: Math.floor(Math.random() * types)
randomGem(types) == {(k * types) \div M3Randoms : k \in 0..(M3Randoms - 1)}

\* applyGravity: the boards it can return, the new gems being random.
applyGravity(g, types) ==
    LET sunk == M3Sunk(g)
        holes == {i \in 1..(M3Size * M3Size) : sunk[i] < 0}
    IN  {[i \in 1..(M3Size * M3Size) |-> IF i \in holes THEN f[i] ELSE sunk[i]] :
            f \in [holes -> randomGem(types)]}

\* The board with the gems of two cells exchanged.
M3Swapped(g, a, b) ==
    [g EXCEPT ![M3Index(a.row, a.col)] = g[M3Index(b.row, b.col)],
              ![M3Index(b.row, b.col)] = g[M3Index(a.row, a.col)]]

\* wouldMatch: the run of equal gems through a cell, along a row or a column.
M3RunThrough(g, horizontal, r, c) ==
    LET a == IF horizontal THEN r ELSE c
        p == IF horizontal THEN c ELSE r
        t == M3At(g, r, c)
        reach == {k \in M3Rows :
                     \A j \in (IF k < p THEN k ELSE p)..(IF k < p THEN p ELSE k) :
                         M3Line(g, horizontal, a, j) = t}
    IN  Cardinality(reach)

\* A mutant of wouldMatch: only the runs through the first cell are looked
\* at.
wouldMatch_FirstCell(g, r1, c1, r2, c2) ==
    /\ M3At(g, r1, c1) # M3At(g, r2, c2)
    /\ LET s == M3Swapped(g, [row |-> r1, col |-> c1], [row |-> r2, col |-> c2])
       IN  \/ M3RunThrough(s, TRUE, r1, c1) >= 3
           \/ M3RunThrough(s, FALSE, r1, c1) >= 3

wouldMatch(g, r1, c1, r2, c2) ==
    /\ M3At(g, r1, c1) # M3At(g, r2, c2)
    /\ LET s == M3Swapped(g, [row |-> r1, col |-> c1], [row |-> r2, col |-> c2])
       IN  \/ M3RunThrough(s, TRUE, r1, c1) >= 3
           \/ M3RunThrough(s, FALSE, r1, c1) >= 3
           \/ M3RunThrough(s, TRUE, r2, c2) >= 3
           \/ M3RunThrough(s, FALSE, r2, c2) >= 3

\* findValidMove: the first pair of its scan (rows, then columns; the right
\* neighbour before the lower one), or the empty sequence for null.
findValidMove(g) ==
    LET try(k) ==
            LET r == (k \div 2) \div M3Size
                c == (k \div 2) % M3Size
            IN  IF k % 2 = 0
                  THEN c < M3Size - 1 /\ wouldMatch(g, r, c, r, c + 1)
                  ELSE r < M3Size - 1 /\ wouldMatch(g, r, c, r + 1, c)
        pair(k) ==
            LET r == (k \div 2) \div M3Size
                c == (k \div 2) % M3Size
            IN  IF k % 2 = 0
                  THEN <<[row |-> r, col |-> c], [row |-> r, col |-> c + 1]>>
                  ELSE <<[row |-> r, col |-> c], [row |-> r + 1, col |-> c]>>
        hits == {k \in 0..(2 * M3Size * M3Size - 1) : try(k)}
    IN  IF hits = {} THEN << >>
        ELSE pair(CHOOSE k \in hits : \A j \in hits : k <= j)

\* shuffleBoard, one attempt: the Fisher-Yates pass from position i down to
\* 1 (positions count from 0), Math.random() returning k / M3Randoms each
\* time.
RECURSIVE M3Shuffled(_, _, _)
M3Shuffled(flat, i, k) ==
    IF i = 0 THEN flat
    ELSE LET j == (k * (i + 1)) \div M3Randoms
         IN  M3Shuffled([flat EXCEPT ![i + 1] = flat[j + 1], ![j + 1] = flat[i + 1]],
                        i - 1, k)

\* shuffleBoard: the first attempt with no match and a valid move, or, after
\* a hundred failed attempts, a fresh board of createBoard.
shuffleBoard(g, types) ==
    {ng \in {M3Shuffled(g, M3Size * M3Size - 1, k) : k \in 0..(M3Randoms - 1)} :
        findMatches(ng) = {} /\ findValidMove(ng) # << >>}
    \cup createBoard(M3Size, types)

\* initGame: the boards it can start a run with.
M3FreshBoards ==
    UNION {IF findValidMove(g) # << >> THEN {g} ELSE shuffleBoard(g, M3Settings.gemTypes) :
              g \in createBoard(M3Settings.gridSize, M3Settings.gemTypes)}

M3InitGame ==
    /\ m3Grid' \in M3FreshBoards
    /\ m3Score' = 0
    /\ m3Time' = M3Settings.timeLimit
    /\ m3Cascade' = 0
    /\ m3Selected' = M3NoCell
    /\ m3Anim' = "idle"
    /\ m3SwapFrom' = [row |-> 0, col |-> 0]
    /\ m3SwapTo' = [row |-> 0, col |-> 0]
    /\ m3Matched' = {}
    /\ m3LastTick' = FALSE

M3StartGame ==
    /\ M3Page /\ m3State = "menu"
    /\ M3InitGame
    /\ m3State' = "playing"
    /\ UNCHANGED last
    /\ UNCHANGED <<page, m3Best, m3Stored>>

\* togglePause: resuming clears lastTickTime.
M3TogglePause ==
    /\ M3Page /\ m3State \in {"playing", "paused"}
    /\ IF m3State = "playing"
         THEN m3State' = "paused" /\ UNCHANGED m3LastTick
         ELSE m3State' = "playing" /\ m3LastTick' = FALSE
    /\ UNCHANGED last
    /\ UNCHANGED <<page, m3Grid, m3Score, m3Time, m3Cascade, m3Selected, m3Anim,
                   m3SwapFrom, m3SwapTo, m3Matched, m3Best, m3Stored>>

M3BackToMenu ==
    /\ M3Page /\ m3State \in {"paused", "gameover"}
    /\ m3State' = "menu"
    /\ UNCHANGED last
    /\ UNCHANGED <<page, m3Grid, m3Score, m3Time, m3Cascade, m3Selected, m3Anim,
                   m3SwapFrom, m3SwapTo, m3Matched, m3LastTick, m3Best, m3Stored>>

M3PlayAgain ==
    /\ M3Page /\ m3State = "gameover"
    /\ M3InitGame
    /\ m3State' = "playing"
    /\ UNCHANGED last
    /\ UNCHANGED <<page, m3Best, m3Stored>>

\* A mutant of M3AcceptsInput: the animation state is not looked at.
M3AcceptsInput_AnyAnim(st, anim) == st = "playing"

\* handleTap and handleSwipe act only while playing with the board at rest.
M3AcceptsInput(st, anim) == st = "playing" /\ anim = "idle"

\* |sel.row - cell.row| + |sel.col - cell.col| = 1
M3Adjacent(a, b) ==
    LET abs(x) == IF x < 0 THEN 0 - x ELSE x
    IN  abs(a.row - b.row) + abs(a.col - b.col) = 1

\* handleTap on a cell of the board, or beside the board (M3NoCell, the null
\* of clientToCell).
M3HandleTap(cell) ==
    /\ M3Page /\ m3State # "menu"
    /\ UNCHANGED <<page, last, m3State, m3Grid, m3Score, m3Time, m3Cascade,
                   m3Matched, m3LastTick, m3Best, m3Stored>>
    /\ IF ~M3AcceptsInput(m3State, m3Anim)
         THEN UNCHANGED <<m3Selected, m3Anim, m3SwapFrom, m3SwapTo>>
         ELSE
           /\ m3Score < M3SwapBelow
           /\ IF cell = M3NoCell \/ m3Selected = M3NoCell
                THEN m3Selected' = cell /\ UNCHANGED <<m3Anim, m3SwapFrom, m3SwapTo>>
                ELSE IF m3Selected = cell
                  THEN m3Selected' = M3NoCell /\ UNCHANGED <<m3Anim, m3SwapFrom, m3SwapTo>>
                  ELSE IF M3Adjacent(m3Selected, cell)
                    THEN /\ m3SwapFrom' = m3Selected
                         /\ m3SwapTo' = cell
                         /\ m3Anim' = "swapping"
                         /\ m3Selected' = M3NoCell
                    ELSE m3Selected' = cell /\ UNCHANGED <<m3Anim, m3SwapFrom, m3SwapTo>>

\* handleSwipe from a cell, the drag's dominant direction being d.
M3HandleSwipe(startCell, d) ==
    /\ M3Page /\ m3State # "menu"
    /\ UNCHANGED <<page, last, m3State, m3Grid, m3Score, m3Time, m3Cascade,
                   m3Matched, m3LastTick, m3Best, m3Stored>>
    /\ LET target == [row |-> startCell.row + DIRECTION_VECTORS(d).y,
                      col |-> startCell.col + DIRECTION_VECTORS(d).x]
       IN  IF ~M3AcceptsInput(m3State, m3Anim) \/ target \notin M3Cells
             THEN UNCHANGED <<m3Selected, m3Anim, m3SwapFrom, m3SwapTo>>
             ELSE /\ m3Score < M3SwapBelow
                  /\ m3Selected' = M3NoCell
                  /\ m3SwapFrom' = startCell
                  /\ m3SwapTo' = target
                  /\ m3Anim' = "swapping"

\* draw, the timer: the clock runs only while playing, a frame that comes
\* half a second or more after the previous one is not counted, and the run
\* ends when the clock reaches zero.
M3Timer(dt) ==
    IF m3State = "playing"
      THEN LET t == IF m3LastTick /\ dt < M3DtLimit THEN m3Time - dt ELSE m3Time
           IN  /\ m3LastTick' = TRUE
               /\ IF t <= 0
                    THEN /\ m3Time' = 0
                         /\ m3State' = "gameover"
                         /\ IF JsGt(m3Score, StoredBest(m3Stored))
                              THEN m3Stored' = m3Score /\ m3Best' = m3Score
                              ELSE UNCHANGED <<m3Stored, m3Best>>
                    ELSE /\ m3Time' = t
                         /\ UNCHANGED <<m3State, m3Stored, m3Best>>
      ELSE /\ m3LastTick' = FALSE
           /\ UNCHANGED <<m3State, m3Time, m3Stored, m3Best>>

\* A mutant of M3SwapResult: the swap is never taken back.
M3SwapResult_Kept(g, a, b) == M3Swapped(g, a, b)

\* draw, swapping: the two gems are exchanged on the board and, when that
\* makes no match, exchanged again.
M3SwapResult(g, a, b) ==
    LET s == M3Swapped(g, a, b)
    IN  IF findMatches(s) # {} THEN s ELSE M3Swapped(s, a, b)

\* A mutant of M3FallAgain: the board is taken to have settled after one fall.
M3FallAgain_Never(matches) == FALSE

\* draw, falling: matches.length > 0, another chain of the cascade follows.
M3FallAgain(matches) == matches # {}

\* draw, the animation transitions: at most one of them in a frame, and only
\* when the animation's duration has elapsed (due).
M3Animate(due) ==
    IF ~due \/ m3Anim = "idle"
      THEN UNCHANGED <<m3Grid, m3Score, m3Cascade, m3Anim, m3Matched>>
    ELSE IF m3Anim = "swapping"
      THEN LET g == M3Swapped(m3Grid, m3SwapFrom, m3SwapTo)
               matches == findMatches(g)
           IN  IF matches # {}
                 THEN /\ m3Score + calcScore(matches, 1) <= M3MaxScore
                      /\ m3Grid' = M3SwapResult(m3Grid, m3SwapFrom, m3SwapTo)
                      /\ m3Matched' = getMatchedSet(matches)
                      /\ m3Cascade' = 1
                      /\ m3Score' = m3Score + calcScore(matches, 1)
                      /\ m3Anim' = "clearing"
                 ELSE /\ m3Anim' = "swapping-back"
                      /\ m3Grid' = M3SwapResult(m3Grid, m3SwapFrom, m3SwapTo)
                      /\ UNCHANGED <<m3Score, m3Cascade, m3Matched>>
    ELSE IF m3Anim = "swapping-back"
      THEN /\ m3Anim' = "idle"
           /\ UNCHANGED <<m3Grid, m3Score, m3Cascade, m3Matched>>
    ELSE IF m3Anim = "clearing"
      THEN /\ m3Grid' \in applyGravity(
                 [i \in 1..(M3Size * M3Size) |->
                     IF [row |-> (i - 1) \div M3Size, col |-> (i - 1) % M3Size] \in m3Matched
                       THEN 0 - 1 ELSE m3Grid[i]],
                 M3Settings.gemTypes)
           /\ m3Matched' = {}
           /\ m3Anim' = "falling"
           /\ UNCHANGED <<m3Score, m3Cascade>>
    ELSE \* falling
      LET matches == findMatches(m3Grid)
      IN  IF M3FallAgain(matches)
            THEN /\ m3Cascade < M3MaxCascade
                 /\ m3Score + calcScore(matches, m3Cascade + 1) <= M3MaxScore
                 /\ m3Matched' = getMatchedSet(matches)
                 /\ m3Cascade' = m3Cascade + 1
                 /\ m3Score' = m3Score + calcScore(matches, m3Cascade + 1)
                 /\ m3Anim' = "clearing"
                 /\ UNCHANGED m3Grid
            ELSE /\ m3Cascade' = 0
                 /\ m3Grid' \in IF findValidMove(m3Grid) # << >> THEN {m3Grid}
                                ELSE shuffleBoard(m3Grid, M3Settings.gemTypes)
                 /\ m3Anim' = "idle"
                 /\ UNCHANGED <<m3Score, m3Matched>>

\* draw: one animation frame, dt after the previous one; the frames are
\* requested in every state but menu.
M3Draw(dt, due) ==
    /\ M3Page /\ m3State # "menu"
    /\ UNCHANGED last
    /\ M3Timer(dt)
    /\ M3Animate(due)
    /\ UNCHANGED <<page, m3Selected, m3SwapFrom, m3SwapTo>>

M3DrawStep == \E dt \in 0..M3MaxElapsed, due \in BOOLEAN : M3Draw(dt, due)

M3Init ==
    /\ m3State = "menu"
    /\ m3Grid = << >>
    /\ m3Score = 0
    /\ m3Time = 0
    /\ m3Cascade = 0
    /\ m3Selected = M3NoCell
    /\ m3Anim = "idle"
    /\ m3SwapFrom = [row |-> 0, col |-> 0]
    /\ m3SwapTo = [row |-> 0, col |-> 0]
    /\ m3Matched = {}
    /\ m3LastTick = FALSE
    /\ m3Stored \in InitialItems
    /\ m3Best = InitialBest(m3Stored)

M3Next ==
    \/ M3StartGame
    \/ M3TogglePause
    \/ M3BackToMenu
    \/ M3PlayAgain
    \/ \E cell \in M3Cells \cup {M3NoCell} : M3HandleTap(cell)
    \/ \E cell \in M3Cells, d \in Directions : M3HandleSwipe(cell, d)
    \/ M3DrawStep

(***************************************************************************)
(* Space Invaders                                                          *)
(*                                                                         *)
(* Times are in milliseconds.  The positions of the ship, the aliens, the  *)
(* bullets and the UFO are not part of the model: what a frame's overlap   *)
(* tests find, which keys are held and what Math.random() returns are      *)
(* inputs of the frame.  siInvLeft is invincibleUntil minus the time of    *)
(* the most recent frame, any negative difference being kept as -1.  The   *)
(* difficulty menu is left out: the one preset of the model stands for the *)
(* three of the program.                                                   *)
(***************************************************************************)
\* The preset, scaled to the model's bounds.
SISettings == [rows |-> SIRows, cols |-> SICols, lives |-> SILives, maxPlayerBullets |-> 1]

SIAlienIds == 1..(SISettings.rows * SISettings.cols)

\* initGame: the type of the aliens of a row, and ALIEN_POINTS.
SIAlienType(r) == IF r = 0 THEN 0 ELSE IF r <= SISettings.rows \div 2 THEN 1 ELSE 2
ALIEN_POINTS(type) == CASE type = 0 -> 40 [] type = 1 -> 20 [] type = 2 -> 10
SIAlienRow(a) == (a - 1) \div SISettings.cols

\* A mutant of SIInitGame: the score is not carried into the next wave.
SIInitGame_ScoreReset(wave, carryScore, carryLives) ==
    /\ siAliens' = [a \in SIAlienIds |-> TRUE]
    /\ siAlienCount' = SISettings.rows * SISettings.cols
    /\ siPBullets' = 0
    /\ siEBullets' = 0
    /\ siUfo' = FALSE
    /\ siScore' = 0
    /\ siLives' = carryLives
    /\ siWave' = wave
    /\ siInvLeft' = 0 - 1

\* initGame(canvasW, canvasH, wave, carryScore, carryLives)
SIInitGame(wave, carryScore, carryLives) ==
    /\ siAliens' = [a \in SIAlienIds |-> TRUE]
    /\ siAlienCount' = SISettings.rows * SISettings.cols
    /\ siPBullets' = 0
    /\ siEBullets' = 0
    /\ siUfo' = FALSE
    /\ siScore' = carryScore
    /\ siLives' = carryLives
    /\ siWave' = wave
    /\ siInvLeft' = 0 - 1

\* startGame, and the deferred init of the render loop's set-up that the
\* state change brings with it.
SIStartGame ==
    /\ SIPage /\ siState = "menu"
    /\ siState' = "playing"
    /\ siLastTime' = FALSE
    /\ SIInitGame(1, 0, SISettings.lives)
    /\ last' = "SIStartGame"
    /\ UNCHANGED <<page, siDt, siBest, siStored>>

\* A mutant of SIResumeLastTime: resuming keeps lastTimeRef.
SIResumeLastTime_Kept(lastTime) == lastTime

\* togglePause: resuming clears lastTimeRef.
SIResumeLastTime(lastTime) == FALSE

SITogglePause ==
    /\ SIPage /\ siState \in {"playing", "paused"}
    /\ IF siState = "playing"
         THEN siState' = "paused" /\ UNCHANGED siLastTime /\ last' = "SIPause"
         ELSE /\ siState' = "playing"
              /\ siLastTime' = SIResumeLastTime(siLastTime)
              /\ last' = "SIResume"
    /\ UNCHANGED <<page, siWorld, siInvLeft, siDt, siBest, siStored>>

SIBackToMenu ==
    /\ SIPage /\ siState \in {"paused", "gameover"}
    /\ siState' = "menu"
    /\ last' = "SIBackToMenu"
    /\ UNCHANGED <<page, siWorld, siInvLeft, siLastTime, siDt, siBest, siStored>>

\* playAgain, and the deferred init that the state change brings with it.
SIPlayAgain ==
    /\ SIPage /\ siState = "gameover"
    /\ siState' = "playing"
    /\ siLastTime' = FALSE
    /\ SIInitGame(1, 0, SISettings.lives)
    /\ last' = "SIPlayAgain"
    /\ UNCHANGED <<page, siDt, siBest, siStored>>

\* A mutant of SIFrameDt: the cap is missing.
SIFrameDt_NoCap(lastTime, elapsed) == IF lastTime THEN elapsed ELSE 0

\* frame: dt = Math.min((now - lastTimeRef.current) / 1000, 0.05), or 0 when
\* lastTimeRef is 0.
SIFrameDt(lastTime, elapsed) ==
    IF lastTime THEN (IF elapsed < FrameCap THEN elapsed ELSE FrameCap) ELSE 0

\* frame: the update runs only while playing, and only with dt > 0.
SIUpdates(st, dt) == st = "playing" /\ dt > 0

\* The best-score comparison of the two game-over branches.
SIStoredAfter(stored, score) == IF JsGt(score, StoredBest(stored)) THEN score ELSE stored

\* A mutant of SINextWave: the state of the run is not looked at.
SINextWave_AnyState(count, st) == count <= 0

\* frame, at the end of the update: all aliens dead and still playing.
SINextWave(count, st) == count <= 0 /\ st = "playing"

\* frame: the update.  left is invincibleUntil relative to this frame.
\*   shoot   the shoot key is held and the cooldown has run out
\*   pFate   what happens to the player's bullet: it flies on ("flies"),
\*           leaves the screen or erodes a shield ("off"), overlaps the
\*           alien `target` ("alien") or the UFO ("ufo")
\*   fire    the enemy fire timer has run out
\*   eFate   what happens to the enemy bullet: "flies", "off" or it overlaps
\*           the ship ("player")
\*   ufoEv   the UFO enters (when inactive) or leaves (when active)
\*   reach   an alive alien has reached the row of the ship
SIUpdate(left, shoot, pFate, target, fire, eFate, ufoEv, reach) ==
    LET s == SISettings
        shot == shoot /\ siPBullets < s.maxPlayerBullets
        pb1 == IF shot THEN siPBullets + 1 ELSE siPBullets
        pb2 == IF pFate = "off" THEN pb1 - 1 ELSE pb1
        eb1 == IF eFate = "off" THEN siEBullets - 1 ELSE siEBullets
        fired == fire /\ \E a \in SIAlienIds : siAliens[a]
        eb2 == IF fired THEN eb1 + 1 ELSE eb1
        ufo1 == IF ufoEv THEN ~siUfo ELSE siUfo
        kill == pFate = "alien"
        aliens1 == IF kill THEN [siAliens EXCEPT ![target] = FALSE] ELSE siAliens
        count1 == IF kill THEN siAlienCount - 1 ELSE siAlienCount
        score1 == IF kill
                    THEN siScore + ALIEN_POINTS(SIAlienType(SIAlienRow(target))) * siWave
                    ELSE siScore
        pb3 == IF kill THEN pb2 - 1 ELSE pb2
        ufoHit == pFate = "ufo"
        ufo2 == IF ufoHit THEN FALSE ELSE ufo1
        score2 == IF ufoHit THEN score1 + 200 * siWave ELSE score1
        pb4 == IF ufoHit THEN pb3 - 1 ELSE pb3
        hit == eFate = "player"
        eb3 == IF hit THEN eb2 - 1 ELSE eb2
        lives1 == IF hit THEN siLives - 1 ELSE siLives
        left1 == IF hit THEN SIInvincibleMs ELSE left
        dead == hit /\ lives1 <= 0
        stored1 == IF dead THEN SIStoredAfter(siStored, score2) ELSE siStored
        landed == reach /\ \E a \in SIAlienIds : aliens1[a]
        stored2 == IF landed THEN SIStoredAfter(stored1, score2) ELSE stored1
        state2 == IF dead \/ landed THEN "gameover" ELSE "playing"
    IN  \* the inputs that the state of the game rules out
        /\ shoot => siPBullets < s.maxPlayerBullets
        /\ pFate # "flies" => pb1 > 0
        /\ IF pFate = "alien" THEN siAliens[target] ELSE target = 1
        /\ pFate = "ufo" => ufo1
        /\ eFate # "flies" => siEBullets > 0
        /\ eFate = "player" => left < 0
        /\ fire => (\E a \in SIAlienIds : siAliens[a])
        /\ reach => (\E a \in SIAlienIds : aliens1[a])
        \* the bounds of the model
        /\ eb2 <= SIMaxEnemyBullets
        /\ score2 <= SIMaxScore
        /\ SINextWave(count1, state2) => siWave < SIMaxWave
        \* the outcome
        /\ siState' = state2
        /\ siStored' = stored2
        /\ siBest' = IF stored2 # siStored THEN score2 ELSE siBest
        /\ IF SINextWave(count1, state2)
             THEN SIInitGame(siWave + 1, score2, lives1)
             ELSE /\ siAliens' = aliens1
                  /\ siAlienCount' = count1
                  /\ siPBullets' = pb4
                  /\ siEBullets' = eb3
                  /\ siUfo' = ufo2
                  /\ siScore' = score2
                  /\ siLives' = lives1
                  /\ siInvLeft' = left1
                  /\ UNCHANGED siWave

\* frame: one animation frame, `elapsed` after the previous one; the frames
\* are requested in every state but menu.
SIFrame(elapsed, shoot, pFate, target, fire, eFate, ufoEv, reach) ==
    /\ SIPage /\ siState # "menu"
    /\ LET dt == SIFrameDt(siLastTime, elapsed)
           left == IF siInvLeft - elapsed < 0 THEN 0 - 1 ELSE siInvLeft - elapsed
       IN  /\ siDt' = dt
           /\ siLastTime' = (siState # "paused")
           /\ IF SIUpdates(siState, dt)
                THEN SIUpdate(left, shoot, pFate, target, fire, eFate, ufoEv, reach)
                ELSE /\ ~shoot /\ pFate = "flies" /\ target = 1 /\ ~fire
                     /\ eFate = "flies" /\ ~ufoEv /\ ~reach
                     /\ siInvLeft' = left
                     /\ UNCHANGED <<siState, siWorld, siBest, siStored>>
    /\ last' = "SIFrame"
    /\ UNCHANGED page

SIInit ==
    /\ siState = "menu"
    /\ siScore = 0
    /\ siLives = 3
    /\ siWave = 1
    /\ siAliens = [a \in SIAlienIds |-> FALSE]
    /\ siAlienCount = 0
    /\ siUfo = FALSE
    /\ siPBullets = 0
    /\ siEBullets = 0
    /\ siInvLeft = 0 - 1
    /\ siLastTime = FALSE
    /\ siDt = 0
    /\ siStored \in InitialItems
    /\ siBest = InitialBest(siStored)

\* The inputs of a frame that the state of the game allows.
SIFrameStep ==
    \E elapsed \in FrameTimes :
      LET quiet == ~SIUpdates(siState, SIFrameDt(siLastTime, elapsed))
          anyAlive == \E a \in SIAlienIds : siAliens[a]
      IN
      \E shoot \in (IF quiet \/ siPBullets >= SISettings.maxPlayerBullets
                       THEN {FALSE} ELSE BOOLEAN) :
      \E ufoEv \in (IF quiet THEN {FALSE} ELSE BOOLEAN) :
      \E pFate \in (IF quiet \/ (siPBullets = 0 /\ ~shoot) THEN {"flies"}
                       ELSE {"flies", "off", "alien", "ufo"}) :
      \E target \in (IF pFate = "alien" THEN SIAlienIds ELSE {1}) :
      \E fire \in (IF quiet \/ ~anyAlive THEN {FALSE} ELSE BOOLEAN) :
      \E eFate \in (IF quiet \/ siEBullets = 0 THEN {"flies"}
                       ELSE {"flies", "off", "player"}) :
      \E reach \in (IF quiet \/ ~anyAlive THEN {FALSE} ELSE BOOLEAN) :
        SIFrame(elapsed, shoot, pFate, target, fire, eFate, ufoEv, reach)

SINext ==
    \/ SIStartGame
    \/ SITogglePause
    \/ SIBackToMenu
    \/ SIPlayAgain
    \/ SIFrameStep

(***************************************************************************)
(* Pixel Runner                                                            *)
(*                                                                         *)
(* Times are in milliseconds and the distance is in pixels.  The player's  *)
(* position and velocity, the platforms, the obstacles and the coins are   *)
(* not part of the model: what a frame's overlap tests find is an input of *)
(* the frame.  The scroll speed stays at the preset's base speed; the      *)
(* difficulty menu is left out.                                            *)
(***************************************************************************)
\* The preset, scaled to the model's bounds.
PRSettings == [baseSpeed |-> PRSpeed, doubleJump |-> TRUE]

\* maxJumps = s.doubleJump ? 2 : 1
PRMaxJumps == IF PRSettings.doubleJump THEN 2 ELSE 1

\* Math.floor(game.distance / 10) + game.coinCount * COIN_SCORE
PRTotal(distance, coins) == (distance \div 10) + coins * 100

\* initGame
PRInitGame ==
    /\ prDistance' = 0
    /\ prCoins' = 0
    /\ prJumpsLeft' = PRMaxJumps
    /\ prJumpPressed' = FALSE

\* startGame, and the deferred init of the render loop's set-up that the
\* state change brings with it.
PRStartGame ==
    /\ PRPage /\ prState = "menu"
    /\ prState' = "playing"
    /\ prLastTime' = FALSE
    /\ PRInitGame
    /\ last' = "PRStartGame"
    /\ UNCHANGED <<page, prDt, prFrameEv, prBest, prStored>>

\* A mutant of PRResumeLastTime: resuming keeps lastTimeRef.
PRResumeLastTime_Kept(lastTime) == lastTime

\* togglePause: resuming clears lastTimeRef.
PRResumeLastTime(lastTime) == FALSE

PRTogglePause ==
    /\ PRPage /\ prState \in {"playing", "paused"}
    /\ IF prState = "playing"
         THEN prState' = "paused" /\ UNCHANGED prLastTime /\ last' = "PRPause"
         ELSE /\ prState' = "playing"
              /\ prLastTime' = PRResumeLastTime(prLastTime)
              /\ last' = "PRResume"
    /\ UNCHANGED <<page, prWorld, prDt, prFrameEv, prBest, prStored>>

PRBackToMenu ==
    /\ PRPage /\ prState \in {"paused", "gameover"}
    /\ prState' = "menu"
    /\ last' = "PRBackToMenu"
    /\ UNCHANGED <<page, prWorld, prLastTime, prDt, prFrameEv, prBest, prStored>>

\* playAgain, and the deferred init that the state change brings with it.
PRPlayAgain ==
    /\ PRPage /\ prState = "gameover"
    /\ prState' = "playing"
    /\ prLastTime' = FALSE
    /\ PRInitGame
    /\ last' = "PRPlayAgain"
    /\ UNCHANGED <<page, prDt, prFrameEv, prBest, prStored>>

\* jumpStart: the jump keys, a mouse button or a touch going down.
PRJumpStart ==
    /\ PRPage /\ prState # "menu"
    /\ prJumpPressed' = IF prState = "playing" THEN TRUE ELSE prJumpPressed
    /\ UNCHANGED <<page, last, prState, prDistance, prCoins, prJumpsLeft, prLastTime,
                   prDt, prFrameEv, prBest, prStored>>

\* A mutant of PRFrameDt: the cap is missing.
PRFrameDt_NoCap(lastTime, elapsed) == IF lastTime THEN elapsed ELSE 0

\* frame: dt = Math.min((now - lastTimeRef.current) / 1000, 0.05), or 0 when
\* lastTimeRef is 0.
PRFrameDt(lastTime, elapsed) ==
    IF lastTime THEN (IF elapsed < FrameCap THEN elapsed ELSE FrameCap) ELSE 0

\* frame: the update runs only while playing, and only with dt > 0.
PRUpdates(st, dt) == st = "playing" /\ dt > 0

\* The best-score comparison of the two game-over branches.
PRStoredAfter(stored, total) == IF JsGt(total, StoredBest(stored)) THEN total ELSE stored

\* A mutant of PRJumps: a jump is executed whenever one is pressed.
PRJumps_Unlimited(pressed, jumpsLeft) == pressed

\* frame, process jump input: the jump is executed (vy = JUMP_VELOCITY,
\* jumpsLeft--) when one was pressed and a jump is left.
PRJumps(pressed, jumpsLeft) == pressed /\ jumpsLeft > 0

\* frame: the update.
\*   land      the player comes down on the top of a platform
\*   obstacle  the player overlaps an obstacle
\*   coin      an uncollected coin is within reach
\*   fell      the player is more than 50 pixels below the canvas
\* An obstacle stands on or floats above a platform, and a landing puts the
\* player on a platform: neither goes with a fall below the canvas.  A
\* frame that executes a jump leaves the player rising, so it finds no
\* landing.
PRUpdate(dt, land, obstacle, coin, fell) ==
    LET jumped == PRJumps(prJumpPressed, prJumpsLeft)
        jumps1 == IF jumped THEN prJumpsLeft - 1 ELSE prJumpsLeft
        distance1 == prDistance + (PRSettings.baseSpeed * dt) \div 1000
        jumps2 == IF land THEN PRMaxJumps ELSE jumps1
        stored1 == IF obstacle
                     THEN PRStoredAfter(prStored, PRTotal(distance1, prCoins))
                     ELSE prStored
        coins1 == IF coin THEN prCoins + 1 ELSE prCoins
        stored2 == IF fell
                     THEN PRStoredAfter(stored1, PRTotal(distance1, coins1))
                     ELSE stored1
    IN  \* the inputs that the geometry rules out
        /\ ~(fell /\ (obstacle \/ land))
        /\ ~(land /\ jumped)
        \* the bounds of the model
        /\ distance1 <= PRMaxDistance
        /\ coins1 <= PRMaxCoins
        \* the outcome
        /\ prJumpPressed' = FALSE
        /\ prJumpsLeft' = jumps2
        /\ prFrameEv' = IF jumped THEN "jump"
                        ELSE IF land THEN "land"
                        ELSE IF prJumpPressed THEN "refused" ELSE "none"
        /\ prDistance' = distance1
        /\ prCoins' = coins1
        /\ prState' = IF obstacle \/ fell THEN "gameover" ELSE "playing"
        /\ prStored' = stored2
        /\ prBest' = IF stored2 # prStored THEN StoredBest(stored2) ELSE prBest

\* frame: one animation frame, `elapsed` after the previous one; the frames
\* are requested in every state but menu.
PRFrame(elapsed, land, obstacle, coin, fell) ==
    /\ PRPage /\ prState # "menu"
    /\ LET dt == PRFrameDt(prLastTime, elapsed)
       IN  /\ prDt' = dt
           /\ prLastTime' = (prState # "paused")
           /\ IF PRUpdates(prState, dt)
                THEN PRUpdate(dt, land, obstacle, coin, fell)
                ELSE /\ ~land /\ ~obstacle /\ ~coin /\ ~fell
                     /\ prFrameEv' = "none"
                     /\ UNCHANGED <<prState, prWorld, prBest, prStored>>
    /\ last' = "PRFrame"
    /\ UNCHANGED page

PRInit ==
    /\ prState = "menu"
    /\ prDistance = 0
    /\ prCoins = 0
    /\ prJumpsLeft = 0
    /\ prJumpPressed = FALSE
    /\ prLastTime = FALSE
    /\ prDt = 0
    /\ prFrameEv = "none"
    /\ prStored \in InitialItems
    /\ prBest = InitialBest(prStored)

PRFrameStep ==
    \E elapsed \in FrameTimes, land \in BOOLEAN, obstacle \in BOOLEAN,
       coin \in BOOLEAN, fell \in BOOLEAN :
        PRFrame(elapsed, land, obstacle, coin, fell)

PRNext ==
    \/ PRStartGame
    \/ PRTogglePause
    \/ PRBackToMenu
    \/ PRPlayAgain
    \/ PRJumpStart
    \/ PRFrameStep

(***************************************************************************)
(* Flappy Bird                                                             *)
(*                                                                         *)
(* The velocity is in hundredths of a pixel per frame.  The height of the  *)
(* bird is not part of the model, so whether the bird has hit something is *)
(* an input of the frame.  flPipes holds the pipes, the oldest first, each *)
(* with its x, its scored flag and the frame it was spawned in (born, the  *)
(* identity of the pipe in the model).                                     *)
(***************************************************************************)
FlWidths == {0, FlWidth, 2 * FlWidth}

FlNoneGone == [scored |-> 0, unscored |-> 0]

\* resetGame(w, h)
FlResetGame(w) ==
    /\ flBirdX' = w \div 4
    /\ flVelocity' = 0
    /\ flPipes' = << >>
    /\ flScore' = 0
    /\ flFrame' = 0
    /\ flGone' = FlNoneGone

\* A mutant of FlFlapped: the impulse is added to the velocity.
FlFlapped_Added(velocity) == velocity + FLAP_STRENGTH

\* flap: birdRef.current.velocity = FLAP_STRENGTH
FlFlapped(velocity) == FLAP_STRENGTH

\* A mutant of FlFlap: the flap on the game-over screen starts the next run.
FlFlap_StartsPlay ==
    /\ FlPage
    /\ IF flState = "ready"
         THEN /\ flState' = "playing"
              /\ flVelocity' = FlFlapped(flVelocity)
              /\ UNCHANGED <<flPipes, flScore, flFrame, flBirdX, flGone>>
         ELSE IF flState = "playing"
           THEN /\ flVelocity' = FlFlapped(flVelocity)
                /\ UNCHANGED <<flState, flPipes, flScore, flFrame, flBirdX, flGone>>
           ELSE /\ FlResetGame(flW)
                /\ flState' = "playing"
    /\ last' = "FlFlap"
    /\ UNCHANGED <<page, flBest, flStored, flW>>

\* flap: Space, a click or a touch.
FlFlap ==
    /\ FlPage
    /\ IF flState = "ready"
         THEN /\ flState' = "playing"
              /\ flVelocity' = FlFlapped(flVelocity)
              /\ UNCHANGED <<flPipes, flScore, flFrame, flBirdX, flGone>>
         ELSE IF flState = "playing"
           THEN /\ flVelocity' = FlFlapped(flVelocity)
                /\ UNCHANGED <<flState, flPipes, flScore, flFrame, flBirdX, flGone>>
           ELSE /\ FlResetGame(flW)
                /\ flState' = "ready"
    /\ last' = "FlFlap"
    /\ UNCHANGED <<page, flBest, flStored, flW>>

\* resize: the canvas takes the size of its container; the game is reset
\* only while it is ready.
FlResize(w) ==
    /\ FlPage
    /\ flW' = w
    /\ IF flState = "ready"
         THEN FlResetGame(w)
         ELSE UNCHANGED <<flBirdX, flVelocity, flPipes, flScore, flFrame, flGone>>
    /\ last' = "FlResize"
    /\ UNCHANGED <<page, flState, flBest, flStored>>

\* loop: pipes[i].x -= PIPE_SPEED
FlMoved(pipes) ==
    [i \in 1..Len(pipes) |-> [pipes[i] EXCEPT !.x = @ - FlPipeSpeed]]

\* A mutant of FlPasses: the scored flag is not looked at.
FlPasses_Again(p, birdX) == p.x + FlPipeWidth < birdX

\* loop: !pipes[i].scored && pipes[i].x + PIPE_WIDTH < bird.x
FlPasses(p, birdX) == ~p.scored /\ p.x + FlPipeWidth < birdX

\* loop: pipes[i].x + PIPE_WIDTH + 8 < 0
FlOffScreen(p) == p.x + FlPipeWidth + FlCapPx < 0

\* loop, the scoring: pipes[i].scored = true, scoreRef.current++
FlScored(pipes, birdX) ==
    [i \in 1..Len(pipes) |->
        [pipes[i] EXCEPT !.scored = @ \/ FlPasses(pipes[i], birdX)]]
FlGained(pipes, birdX) ==
    Cardinality({i \in 1..Len(pipes) : FlPasses(pipes[i], birdX)})

\* loop, the removal: pipes.splice(i, 1)
FlIsKept(p) == ~FlOffScreen(p)
FlKept(pipes) == SelectSeq(pipes, FlIsKept)
FlRemoved(pipes, flag) ==
    Cardinality({i \in 1..Len(pipes) :
                    FlOffScreen(pipes[i]) /\ pipes[i].scored = flag})

\* loop: one animation frame.
FlLoop(dead) ==
    /\ FlPage
    /\ IF flState = "playing"
         THEN LET frame1 == flFrame + 1
                  pipes1 == IF frame1 % FlSpawnInterval = 0
                              THEN Append(flPipes, [x |-> flW, scored |-> FALSE,
                                                    born |-> frame1])
                              ELSE flPipes
                  pipes2 == FlMoved(pipes1)
                  pipes3 == FlScored(pipes2, flBirdX)
                  score1 == flScore + FlGained(pipes2, flBirdX)
              IN  \* the bound of the model
                  /\ flFrame < FlMaxFrames
                  /\ flVelocity' = flVelocity + GRAVITY
                  /\ flFrame' = frame1
                  /\ flPipes' = FlKept(pipes3)
                  /\ flGone' = [scored |-> flGone.scored + FlRemoved(pipes3, TRUE),
                                unscored |-> flGone.unscored + FlRemoved(pipes3, FALSE)]
                  /\ flScore' = score1
                  /\ IF dead
                       THEN /\ flState' = "gameover"
                            /\ IF JsGt(score1, flBest)
                                 THEN flBest' = score1 /\ flStored' = score1
                                 ELSE UNCHANGED <<flBest, flStored>>
                       ELSE UNCHANGED <<flState, flBest, flStored>>
                  /\ UNCHANGED <<flW, flBirdX>>
         ELSE /\ ~dead
              /\ UNCHANGED flVars
    /\ last' = "FlLoop"
    /\ UNCHANGED page

\* The component is mounted with one of `items` in localStorage: resize() has
\* run once in the ready state.
FlMounted(items) ==
    /\ flState = "ready"
    /\ flVelocity = 0
    /\ flFrame = 0
    /\ flPipes = << >>
    /\ flScore = 0
    /\ flStored \in items
    /\ flBest = InitialBest(flStored)
    /\ flW = FlWidth
    /\ flBirdX = FlWidth \div 4
    /\ flGone = FlNoneGone

FlInit == FlMounted(InitialItems)

FlNext ==
    \/ FlFlap
    \/ \E w \in FlWidths : FlResize(w)
    \/ \E dead \in BOOLEAN : FlLoop(dead)

(***************************************************************************)
(* Space Invaders: the formation                                           *)
(***************************************************************************)
\* The margin the formation keeps to both edges of the canvas.
FmMargin == 4

FmSettings == [rows |-> SIRows, cols |-> SICols, alienSpeed |-> FmSpeed,
               alienDropPx |-> FmDrop]

\* initGame: the alien grid, centred on the canvas, every alien alive.
FmInitAliens(canvasW) ==
    LET gridW == FmSettings.cols * (FmAlienW + FmPadX) - FmPadX
        startX == (canvasW - gridW) \div 2
    IN  [a \in SIAlienIds |->
            [x |-> startX + ((a - 1) % FmSettings.cols) * (FmAlienW + FmPadX),
             y |-> ((a - 1) \div FmSettings.cols) * FmRowPitch,
             w |-> FmAlienW,
             alive |-> TRUE]]

\* A mutant of FmNeedDrop: dead aliens are looked at too.
FmNeedDrop_DeadToo(aliens, d, w) ==
    \E a \in DOMAIN aliens :
        LET nx == aliens[a].x + d * FmSettings.alienSpeed
        IN  nx < FmMargin \/ nx + aliens[a].w > w - FmMargin

\* frame, formation step: needDrop.
FmNeedDrop(aliens, d, w) ==
    \E a \in DOMAIN aliens :
        /\ aliens[a].alive
        /\ LET nx == aliens[a].x + d * FmSettings.alienSpeed
           IN  nx < FmMargin \/ nx + aliens[a].w > w - FmMargin

\* frame, formation step: stepTimer has reached stepInterval.
FmStep ==
    /\ page = "invaders"
    /\ IF FmNeedDrop(fmAliens, fmDir, fmW)
         THEN /\ \A a \in DOMAIN fmAliens :
                    fmAliens[a].y + FmSettings.alienDropPx <= FmMaxDrops * FmDrop
                      + ((a - 1) \div FmSettings.cols) * FmRowPitch
              /\ fmDir' = fmDir * (0 - 1)
              /\ fmAliens' = [a \in DOMAIN fmAliens |->
                                 IF fmAliens[a].alive
                                   THEN [fmAliens[a] EXCEPT !.y = @ + FmSettings.alienDropPx]
                                   ELSE fmAliens[a]]
         ELSE /\ fmDir' = fmDir
              /\ fmAliens' = [a \in DOMAIN fmAliens |->
                                 IF fmAliens[a].alive
                                   THEN [fmAliens[a] EXCEPT
                                            !.x = @ + fmDir * FmSettings.alienSpeed]
                                   ELSE fmAliens[a]]
    /\ last' = "FmStep"
    /\ UNCHANGED <<page, snakeVars, m3Vars, siVars, prVars, flVars, cbVars, plVars,
                   fmW, ssVars, fnVars>>

\* frame, bullet against alien: a.alive = false.
FmKill(a) ==
    /\ page = "invaders"
    /\ fmAliens[a].alive
    /\ fmAliens' = [fmAliens EXCEPT ![a].alive = FALSE]
    /\ last' = "FmKill"
    /\ UNCHANGED <<page, snakeVars, m3Vars, siVars, prVars, flVars, cbVars, plVars,
                   fmW, fmDir, ssVars, fnVars>>

\* initGame on a canvas of one of two widths.
FmInit ==
    /\ fmW \in {FmWidth, FmWidth + 2}
    /\ fmAliens = FmInitAliens(fmW)
    /\ fmDir = 1

\* The formation sub-model at rest.
FmIdle == fmW = FmWidth /\ fmAliens = FmInitAliens(FmWidth) /\ fmDir = 1

FmNext == FmStep \/ \E a \in SIAlienIds : FmKill(a)

(***************************************************************************)
(* Pixel Runner: the platform generation passes                            *)
(***************************************************************************)
PlSettings == [gapMin |-> PlGapMin, gapMax |-> PlGapMax,
               platWidthMin |-> PlWidthMin, platWidthMax |-> PlWidthMax]

\* rand(min, max), on whole pixels.
PlRand(min, max) == min..max

\* A mutant of PlGoesOn: the pass stops at the right edge of the canvas.
PlGoesOn_ToEdge(lastRight, w) == lastRight < w

\* initGame and frame: the condition of the generation loop.
PlGoesOn(lastRight, w) == lastRight < w + PlAhead

\* One iteration of the loop: a gap and a platform are added.
PlGenerate(gap, pw) ==
    /\ page = "runner" /\ plPc = "generating"
    /\ PlGoesOn(plRight, plW)
    /\ plRight' = plRight + gap + pw
    /\ last' = "PlGenerate"
    /\ UNCHANGED <<page, snakeVars, m3Vars, siVars, prVars, flVars, cbVars, fmVars,
                   plW, plPc, ssVars, fnVars>>

\* The loop condition fails: the pass is over.
PlExit ==
    /\ page = "runner" /\ plPc = "generating"
    /\ ~PlGoesOn(plRight, plW)
    /\ plPc' = "done"
    /\ last' = "PlExit"
    /\ UNCHANGED <<page, snakeVars, m3Vars, siVars, prVars, flVars, cbVars, fmVars,
                   plW, plRight, ssVars, fnVars>>

\* frame, while playing: the platforms scroll left, then lastRight is taken
\* from them (from 0 upwards) and the loop is entered.
PlScroll(dx) ==
    /\ page = "runner" /\ plPc = "done"
    /\ plRight' = IF plRight - dx > 0 THEN plRight - dx ELSE 0
    /\ plPc' = "generating"
    /\ last' = "PlScroll"
    /\ UNCHANGED <<page, snakeVars, m3Vars, siVars, prVars, flVars, cbVars, fmVars,
                   plW, ssVars, fnVars>>

PlLoop ==
    \/ \E gap \in PlRand(PlSettings.gapMin, PlSettings.gapMax),
          pw \in PlRand(PlSettings.platWidthMin, PlSettings.platWidthMax) :
          PlGenerate(gap, pw)
    \/ PlExit

\* initGame: the starting platform is there and the loop is entered.
PlInit ==
    /\ plW \in {PlWidth, PlWidth + 1, PlWidth + 2}
    /\ plRight = PlStart
    /\ plPc = "generating"

\* The platform sub-model at rest.
PlIdle == plW = PlWidth /\ plRight = PlWidth + PlAhead /\ plPc = "done"

PlNext == PlLoop \/ \E dx \in 1..PlMaxScroll : PlScroll(dx)

(***************************************************************************)
(* createBoard, cell by cell                                               *)
(***************************************************************************)
\* A mutant of CbRejects: only the run to the left is tested.
CbRejects_RowOnly(g, r, c, gem) ==
    c >= 2 /\ M3At(g, r, c - 1) = gem /\ M3At(g, r, c - 2) = gem

\* createBoard: the condition of its do-while loop, which draws again.
CbRejects(g, r, c, gem) ==
    \/ (c >= 2 /\ M3At(g, r, c - 1) = gem /\ M3At(g, r, c - 2) = gem)
    \/ (r >= 2 /\ M3At(g, r - 1, c) = gem /\ M3At(g, r - 2, c) = gem)

\* The row and the column of the cell createBoard fills next.
CbRow(g) == Len(g) \div M3Size
CbCol(g) == Len(g) % M3Size

\* createBoard: one pass of the inner for loop.  The do-while loop ends with
\* a gem of randomGem(types) that CbRejects lets through, whichever it is.
CbPlace(gem) ==
    /\ page = "match3"
    /\ Len(cbGrid) < M3Size * M3Size
    /\ ~CbRejects(cbGrid, CbRow(cbGrid), CbCol(cbGrid), gem)
    /\ cbGrid' = Append(cbGrid, gem)
    /\ UNCHANGED <<page, last, snakeVars, m3Vars, siVars, prVars, flVars, cbTypes,
                   fmVars, plVars, ssVars, fnVars>>

\* createBoard: const g = [], with the types of the call.
CbInit == cbGrid = << >> /\ cbTypes \in 3..CbMaxTypes

\* No call of createBoard is under way.
CbIdle == cbGrid = << >> /\ cbTypes = M3Settings.gemTypes

CbNext == \E gem \in M3Gems(cbTypes) : CbPlace(gem)

(***************************************************************************)
(* Match-Three: applyGravity, column by column                             *)
(*                                                                         *)
(* One call of applyGravity on a board with any of its cells cleared: the  *)
(* outer for loop one column at a time, with the fall records it pushes.   *)
(***************************************************************************)
\* The cell of a record at a row and a type.
AgCell(r, t) == [row |-> r, type |-> t]

\* A mutant of AgExisting: the gems of the column from the top row down.
AgExisting_TopDown(g, c) ==
    SelectSeq([k \in 1..M3Size |-> AgCell(k - 1, M3At(g, k - 1, c))],
              LAMBDA e : e.type >= 0)

\* existing: the gems of column c, pushed from the bottom row up.
AgExisting(g, c) ==
    SelectSeq([k \in 1..M3Size |-> AgCell(M3Size - k, M3At(g, M3Size - k, c))],
              LAMBDA e : e.type >= 0)

\* The boards applyGravity is called on: a board with a set of its cells
\* cleared to -1.
AgCleared(g, mask) == [i \in 1..(M3Size * M3Size) |-> IF i \in mask THEN 0 - 1 ELSE g[i]]

\* One pass of the outer for loop: the gems of the column written from the
\* bottom row up, then a new gem for each row left above them.
AgColumn ==
    /\ page = "match3"
    /\ agGrid # << >>
    /\ agCol < M3Size
    /\ LET existing == AgExisting(agGrid, agCol)
           write == M3Size - 1 - Len(existing)
           numNew == write + 1
       IN  \E f \in [0..write -> randomGem(M3Settings.gemTypes)] :
              /\ agNew' = [i \in 1..(M3Size * M3Size) |->
                              LET r == (i - 1) \div M3Size
                                  c == (i - 1) % M3Size
                              IN  IF c # agCol THEN agNew[i]
                                  ELSE IF r > write THEN existing[M3Size - r].type
                                  ELSE f[r]]
              /\ agFall' = agFall
                    \cup {[col |-> agCol, toRow |-> M3Size - k,
                           fromRow |-> existing[k].row, gemType |-> existing[k].type] :
                             k \in {j \in 1..Len(existing) : existing[j].row # M3Size - j}}
                    \cup {[col |-> agCol, toRow |-> i, fromRow |-> i - numNew,
                           gemType |-> f[i]] : i \in 0..write}
    /\ agCol' = agCol + 1
    /\ last' = "AgColumn"
    /\ UNCHANGED <<page, snakeVars, m3Vars, siVars, prVars, flVars, cbVars, fmVars,
                   plVars, ssVars, diVars, caVars, agGrid, wmVars, efVars>>

\* applyGravity is entered: newGrid filled with -1, fallData empty.
AgInit ==
    /\ agGrid \in {AgCleared(M3Pattern(0, M3Settings.gemTypes), mask) :
                      mask \in SUBSET (1..(M3Size * M3Size))}
    /\ agNew = [i \in 1..(M3Size * M3Size) |-> 0 - 1]
    /\ agFall = {}
    /\ agCol = 0

\* No call of applyGravity is under way.
AgIdle == agGrid = << >> /\ agNew = << >> /\ agFall = {} /\ agCol = 0

(***************************************************************************)
(* Match-Three: wouldMatch and findValidMove on a board at rest            *)
(*                                                                         *)
(* The two functions called on a board with no match on it, as the game    *)
(* calls them when the animation is idle.                                  *)
(***************************************************************************)
\* What a call returned: the function, its two cells, the boolean of
\* wouldMatch and the pair (or the empty sequence, for null) of
\* findValidMove.
WmResult(call, a, b, found, move) ==
    [call |-> call, from |-> a, to |-> b, found |-> found, move |-> move]

WmOrigin == [row |-> 0, col |-> 0]

\* wouldMatch, the board it leaves: untouched when the two gems are equal,
\* else t2 and t1 written to the two cells and, after the checks, t1 and t2
\* written back.
WmBoardAfter(g, a, b) ==
    LET t1 == M3At(g, a.row, a.col)
        t2 == M3At(g, b.row, b.col)
        swapped == [g EXCEPT ![M3Index(a.row, a.col)] = t2,
                             ![M3Index(b.row, b.col)] = t1]
    IN  IF t1 = t2 THEN g
        ELSE [swapped EXCEPT ![M3Index(a.row, a.col)] = t1,
                             ![M3Index(b.row, b.col)] = t2]

\* The boards with no match the model calls the two functions on: the
\* diagonal stripes with any set of cells moved on by one gem type.
WmBoards(types) ==
    {g \in {[i \in 1..(M3Size * M3Size) |->
                (M3Pattern(0, types)[i] + (IF i \in mask THEN 1 ELSE 0)) % types] :
                    mask \in SUBSET (1..(M3Size * M3Size))} :
        findMatches(g) = {}}

\* wouldMatch(grid, r1, c1, r2, c2) on two adjacent cells.
WmCall(a, b) ==
    /\ page = "match3"
    /\ wmGrid # << >>
    /\ M3Adjacent(a, b)
    /\ wmOut' = WmResult("wouldMatch", a, b,
                         wouldMatch(wmGrid, a.row, a.col, b.row, b.col), << >>)
    /\ wmGrid' = WmBoardAfter(wmGrid, a, b)
    /\ last' = "WmCall"
    /\ UNCHANGED <<page, snakeVars, m3Vars, siVars, prVars, flVars, cbVars, fmVars,
                   plVars, ssVars, diVars, caVars, agVars, efVars>>

\* findValidMove(grid).
WmFind ==
    /\ page = "match3"
    /\ wmGrid # << >>
    /\ wmOut' = WmResult("findValidMove", WmOrigin, WmOrigin, FALSE,
                         findValidMove(wmGrid))
    /\ last' = "WmFind"
    /\ UNCHANGED <<page, snakeVars, m3Vars, siVars, prVars, flVars, cbVars, fmVars,
                   plVars, ssVars, diVars, caVars, agVars, wmGrid, efVars>>

WmInit ==
    /\ wmGrid \in WmBoards(M3Settings.gemTypes)
    /\ wmOut = WmResult("none", WmOrigin, WmOrigin, FALSE, << >>)

\* No call of wouldMatch or findValidMove is under way.
WmIdle ==
    /\ wmGrid = << >>
    /\ wmOut = WmResult("none", WmOrigin, WmOrigin, FALSE, << >>)

WmNext == WmFind \/ \E a \in M3Cells, b \in M3Cells : WmCall(a, b)

(***************************************************************************)
(* Space Invaders: the aliens, the enemy fire and the kills                *)
(*                                                                         *)
(* A formation of EfRows rows and EfCols columns, the enemy fire of the    *)
(* frame, the passes of its loop of player bullets against aliens and its  *)
(* test for the next wave, each as a step of its own.                      *)
(***************************************************************************)
EfIds == 1..(EfRows * EfCols)

\* initGame: aliens are pushed row by row, each row from column 0 on.
EfRow(a) == (a - 1) \div EfCols
EfCol(a) == (a - 1) % EfCols

\* The enemy fire: colBottom after the aliens from the k-th on have been
\* looked at, a column without an entry holding 0.
RECURSIVE EfColBottomFrom(_, _, _)
EfColBottomFrom(alive, k, colBottom) ==
    IF k > EfRows * EfCols THEN colBottom
    ELSE IF ~alive[k] THEN EfColBottomFrom(alive, k + 1, colBottom)
    ELSE LET existing == colBottom[EfCol(k)]
         IN  IF existing = 0 \/ EfRow(k) > EfRow(existing)
               THEN EfColBottomFrom(alive, k + 1, [colBottom EXCEPT ![EfCol(k)] = k])
               ELSE EfColBottomFrom(alive, k + 1, colBottom)

\* A mutant of EfBottomAliens: the dead aliens are not skipped.
EfBottomAliens_DeadToo(alive) ==
    {EfColBottomFrom([a \in EfIds |-> TRUE], 1, [j \in 0..(EfCols - 1) |-> 0])[c] :
        c \in 0..(EfCols - 1)} \ {0}

\* The enemy fire: bottomAliens.
EfBottomAliens(alive) ==
    {EfColBottomFrom(alive, 1, [j \in 0..(EfCols - 1) |-> 0])[c] :
        c \in 0..(EfCols - 1)} \ {0}

\* frame, enemy fire: enemyFireTimer has reached fireInterval; a shooter is
\* picked at random among bottomAliens, if there is any.
EfFire ==
    /\ page = "invaders"
    /\ efEnemy < EfMaxBullets
    /\ IF EfBottomAliens(efAlive) # {}
         THEN /\ efShooter' \in EfBottomAliens(efAlive)
              /\ efEnemy' = efEnemy + 1
         ELSE UNCHANGED <<efShooter, efEnemy>>
    /\ last' = "EfFire"
    /\ UNCHANGED <<page, snakeVars, m3Vars, siVars, prVars, flVars, cbVars, fmVars,
                   plVars, ssVars, diVars, caVars, agVars, wmVars, efAlive, efCount, efWave, efPlayer>>

\* frame: a bullet leaves the canvas or is used up on a shield or the ship.
EfGone(enemy) ==
    /\ page = "invaders"
    /\ IF enemy THEN efEnemy > 0 /\ efEnemy' = efEnemy - 1 /\ efPlayer' = efPlayer
                ELSE efPlayer > 0 /\ efPlayer' = efPlayer - 1 /\ efEnemy' = efEnemy
    /\ last' = "EfGone"
    /\ UNCHANGED <<page, snakeVars, m3Vars, siVars, prVars, flVars, cbVars, fmVars,
                   plVars, ssVars, diVars, caVars, agVars, wmVars, efAlive, efCount, efWave, efShooter>>

\* frame: the ship shoots.
EfShoot ==
    /\ page = "invaders"
    /\ efPlayer < EfMaxBullets
    /\ efPlayer' = efPlayer + 1
    /\ last' = "EfShoot"
    /\ UNCHANGED <<page, snakeVars, m3Vars, siVars, prVars, flVars, cbVars, fmVars,
                   plVars, ssVars, diVars, caVars, agVars, wmVars, efAlive, efCount, efWave, efEnemy,
                   efShooter>>

\* A mutant of EfKilled: the inner loop goes on after a kill.
EfKilled_All(over, alive) == {a \in over : alive[a]}

\* frame, player bullets against aliens: the aliens set dead by one bullet
\* that overlaps the aliens of over, which is the first of them in
\* game.aliens that is alive, the inner loop ending with break.
EfKilled(over, alive) ==
    LET hit == {a \in over : alive[a]}
    IN  IF hit = {} THEN {} ELSE {CHOOSE x \in hit : \A y \in hit : x <= y}

\* frame, player bullets against aliens: the pass of the outer loop for one
\* bullet that overlaps the aliens of over.  The first of them that is alive
\* is killed, and the inner loop is left.
EfBullet(over) ==
    /\ page = "invaders"
    /\ efPlayer > 0
    /\ EfKilled(over, efAlive) # {}
    /\ efAlive' = [a \in EfIds |-> efAlive[a] /\ a \notin EfKilled(over, efAlive)]
    /\ efPlayer' = efPlayer - 1
    /\ efCount' = efCount - 1
    /\ last' = "EfBullet"
    /\ UNCHANGED <<page, snakeVars, m3Vars, siVars, prVars, flVars, cbVars, fmVars,
                   plVars, ssVars, diVars, caVars, agVars, wmVars, efWave, efEnemy, efShooter>>

\* frame, all aliens dead: initGame for the next wave, with a formation of
\* live aliens and no bullet.
EfNextWave ==
    /\ page = "invaders"
    /\ efCount <= 0
    /\ efWave < EfMaxWave
    /\ efWave' = efWave + 1
    /\ efAlive' = [a \in EfIds |-> TRUE]
    /\ efCount' = EfRows * EfCols
    /\ efEnemy' = 0
    /\ efPlayer' = 0
    /\ last' = "EfNextWave"
    /\ UNCHANGED <<page, snakeVars, m3Vars, siVars, prVars, flVars, cbVars, fmVars,
                   plVars, ssVars, diVars, caVars, agVars, wmVars, efShooter>>

\* initGame for wave 1.
EfInit ==
    /\ efAlive = [a \in EfIds |-> TRUE]
    /\ efCount = EfRows * EfCols
    /\ efWave = 1
    /\ efEnemy = 0
    /\ efShooter = 0
    /\ efPlayer = 0

EfIdle == EfInit

EfNext ==
    \/ EfFire
    \/ EfShoot
    \/ \E enemy \in BOOLEAN : EfGone(enemy)
    \/ \E over \in SUBSET EfIds : EfBullet(over)
    \/ EfNextWave

(***************************************************************************)
(* Space Invaders and Pixel Runner: the deferred initialisation            *)
(*                                                                         *)
(* startGame and playAgain only ask for a new world; the render-loop       *)
(* effect builds it when React runs the effects of the commit they cause.  *)
(* React runs them before the task of a click ends or in a task of its own *)
(* posted at the commit, so that the frame loop of the screen before, if   *)
(* there is one, gets one callback in between at most.                     *)
(***************************************************************************)
DiStep(name) ==
    /\ last' = name
    /\ UNCHANGED <<page, snakeVars, m3Vars, siVars, prVars, flVars, cbVars, fmVars,
                   plVars, ssVars, agVars, wmVars, efVars, caVars>>

\* A mutant of DiStartLastTime: the handlers leave lastTimeRef alone.
DiStartLastTime_Kept(lastTime) == lastTime

\* startGame and playAgain: lastTimeRef.current = 0.
DiStartLastTime(lastTime) == FALSE

\* The buttons of a screen are there once the screen is committed.
DiRendered(st) == diState = st /\ diCommitted = st

\* startGame, playAgain: the body the two share in both games.
DiRestart(name) ==
    /\ diNeedsInit' = TRUE
    /\ diState' = "playing"
    /\ diLastTime' = DiStartLastTime(diLastTime)
    /\ diStale' = TRUE
    /\ diFramed' = FALSE
    /\ UNCHANGED <<diCommitted, diDt>>
    /\ DiStep(name)

DiStartGame == DiRendered("menu") /\ DiRestart("DiStartGame")

DiPlayAgain == DiRendered("gameover") /\ DiRestart("DiPlayAgain")

\* togglePause, from its button or from the key handler of the effect.
DiTogglePause ==
    /\ diCommitted # "menu"
    /\ diState \in {"playing", "paused"}
    /\ IF diState = "playing"
         THEN diState' = "paused" /\ diLastTime' = diLastTime
         ELSE diState' = "playing" /\ diLastTime' = FALSE
    /\ UNCHANGED <<diCommitted, diNeedsInit, diStale, diFramed, diDt>>
    /\ DiStep("DiTogglePause")

DiBackToMenu ==
    /\ DiRendered("paused") \/ DiRendered("gameover")
    /\ diState' = "menu"
    /\ diFramed' = FALSE
    /\ UNCHANGED <<diCommitted, diNeedsInit, diLastTime, diStale, diDt>>
    /\ DiStep("DiBackToMenu")

\* The render-loop effect of a commit: the clean-up of the loop before, and,
\* unless the screen is the menu, the deferred init and a new loop.
DiCommit ==
    /\ diCommitted # diState
    /\ diCommitted' = diState
    /\ diFramed' = FALSE
    /\ IF diState # "menu" /\ diNeedsInit
         THEN diNeedsInit' = FALSE /\ diStale' = FALSE
         ELSE UNCHANGED <<diNeedsInit, diStale>>
    /\ UNCHANGED <<diState, diLastTime, diDt>>
    /\ DiStep("DiCommit")

\* frame, of the loop that the last effect set up: dt, lastTimeRef, and the
\* update, which ends the run when over holds.
DiFrame(elapsed, over) ==
    /\ diCommitted # "menu"
    /\ diCommitted # diState => ~diFramed
    /\ LET dt == IF page = "invaders" THEN SIFrameDt(diLastTime, elapsed)
                                      ELSE PRFrameDt(diLastTime, elapsed)
           runs == IF page = "invaders" THEN SIUpdates(diState, dt)
                                        ELSE PRUpdates(diState, dt)
       IN  /\ over => runs
           /\ diLastTime' = (diState # "paused")
           /\ diState' = IF over THEN "gameover" ELSE diState
           /\ diDt' = IF runs THEN dt ELSE 0
           /\ diFramed' = (~over /\ diCommitted # diState)
    /\ UNCHANGED <<diCommitted, diNeedsInit, diStale>>
    /\ DiStep("DiFrame")

\* The page is mounted on its menu.
DiInit ==
    /\ diState = "menu"
    /\ diCommitted = "menu"
    /\ diNeedsInit = FALSE
    /\ diLastTime = FALSE
    /\ diStale = FALSE
    /\ diFramed = FALSE
    /\ diDt = 0

DiIdle == DiInit

DiNext ==
    \/ DiStartGame
    \/ DiPlayAgain
    \/ DiTogglePause
    \/ DiBackToMenu
    \/ DiCommit
    \/ \E elapsed \in FrameTimes, over \in BOOLEAN : DiFrame(elapsed, over)

(***************************************************************************)
(* Match-Three: the animation of a swap and its cascade                    *)
(*                                                                         *)
(* The animation state machine of draw with the board, without the score   *)
(* and the cascade level, which grow with every chain.  A step is a frame  *)
(* that finds the duration of the current animation elapsed; the frames    *)
(* before it change nothing.                                               *)
(***************************************************************************)
CaStepOf(name) ==
    /\ last' = name
    /\ UNCHANGED <<page, snakeVars, m3Vars, siVars, prVars, flVars, cbVars, fmVars,
                   plVars, ssVars, agVars, wmVars, efVars, diVars>>

\* The board with the matched cells set to -1.
CaCleared(g, matched) ==
    [i \in 1..(M3Size * M3Size) |->
        IF [row |-> (i - 1) \div M3Size, col |-> (i - 1) % M3Size] \in matched
          THEN 0 - 1 ELSE g[i]]

\* A tap or a swipe on a board at rest: two adjacent cells begin to swap.
CaSwap(a, b) ==
    /\ page = "match3"
    /\ caGrid # << >>
    /\ caAnim = "idle"
    /\ M3Adjacent(a, b)
    \* the bound of the model
    /\ caSwaps < CaMaxSwaps
    /\ caSwaps' = caSwaps + 1
    /\ caAnim' = "swapping"
    /\ caFrom' = a
    /\ caTo' = b
    /\ UNCHANGED <<caGrid, caMatched>>
    /\ CaStepOf("CaSwap")

\* draw, swapping: the gems are exchanged; with a match the clearing begins,
\* else they are exchanged back.
CaSwapping ==
    /\ page = "match3"
    /\ caAnim = "swapping"
    /\ LET g == M3Swapped(caGrid, caFrom, caTo)
           matches == findMatches(g)
       IN  IF matches # {}
             THEN /\ caGrid' = g
                  /\ caMatched' = getMatchedSet(matches)
                  /\ caAnim' = "clearing"
             ELSE /\ caGrid' = M3Swapped(g, caFrom, caTo)
                  /\ caAnim' = "swapping-back"
                  /\ UNCHANGED caMatched
    /\ UNCHANGED <<caFrom, caTo, caSwaps>>
    /\ CaStepOf("CaSwapping")

\* draw, swapping-back.
CaSwapBack ==
    /\ page = "match3"
    /\ caAnim = "swapping-back"
    /\ caAnim' = "idle"
    /\ UNCHANGED <<caGrid, caMatched, caFrom, caTo, caSwaps>>
    /\ CaStepOf("CaSwapBack")

\* draw, clearing: the matched cells are emptied and applyGravity refills
\* the board, the new gems being random: the board is one of
\* applyGravity(CaCleared(caGrid, caMatched), types), written out with the
\* sunk board and its empty cells computed once.
CaClearing ==
    /\ page = "match3"
    /\ caAnim = "clearing"
    /\ \E sunk \in {M3Sunk(CaCleared(caGrid, caMatched))} :
          \E holes \in {{i \in 1..(M3Size * M3Size) : sunk[i] < 0}} :
             \E f \in [holes -> randomGem(M3Settings.gemTypes)] :
                caGrid' = [i \in 1..(M3Size * M3Size) |->
                              IF i \in holes THEN f[i] ELSE sunk[i]]
    /\ caMatched' = {}
    /\ caAnim' = "falling"
    /\ UNCHANGED <<caFrom, caTo, caSwaps>>
    /\ CaStepOf("CaClearing")

\* A mutant of CaChainFollows: a chain follows every fall.
CaChainFollows_Always(matches) == TRUE

\* draw, falling: matches.length > 0.
CaChainFollows(matches) == matches # {}

\* draw, falling: with a match on the board that has settled the next chain
\* begins, else the animation is over.
CaFalling ==
    /\ page = "match3"
    /\ caAnim = "falling"
    /\ LET matches == findMatches(caGrid)
       IN  IF CaChainFollows(matches)
             THEN /\ caMatched' = getMatchedSet(matches)
                  /\ caAnim' = "clearing"
                  /\ UNCHANGED caGrid
             ELSE /\ caGrid' \in IF findValidMove(caGrid) # << >> THEN {caGrid}
                                 ELSE shuffleBoard(caGrid, M3Settings.gemTypes)
                  /\ caAnim' = "idle"
                  /\ UNCHANGED caMatched
    /\ UNCHANGED <<caFrom, caTo, caSwaps>>
    /\ CaStepOf("CaFalling")

\* The frame that ends the animation under way.
CaFrame == CaSwapping \/ CaSwapBack \/ CaClearing \/ CaFalling

\* The clearing whose new gems form no match with the board.
CaSettles == CaClearing /\ findMatches(caGrid') = {}

\* initGame: a board at rest.
CaInit ==
    /\ caAnim = "idle"
    /\ caGrid \in M3FreshBoards
    /\ caMatched = {}
    /\ caFrom = WmOrigin
    /\ caTo = WmOrigin
    /\ caSwaps = 0

CaIdle ==
    /\ caAnim = "idle"
    /\ caGrid = << >>
    /\ caMatched = {}
    /\ caFrom = WmOrigin
    /\ caTo = WmOrigin
    /\ caSwaps = 0

CaNext ==
    \/ \E a \in M3Cells, b \in M3Cells : CaSwap(a, b)
    \/ CaSwapping
    \/ CaSwapBack
    \/ CaClearing
    \/ CaFalling

FnIdle == AgIdle /\ WmIdle /\ EfIdle /\ DiIdle /\ CaIdle

(***************************************************************************)
(* Snake: the session, its settings and its timers                         *)
(*                                                                         *)
(* The menu with its custom settings, and the render-loop effect that      *)
(* creates and cancels the tick interval and the frame callback.  A run is *)
(* followed only as far as its state: an interval callback that finds the  *)
(* game playing either moves the snake or ends the run.  A state change    *)
(* made by a click or a key press is committed, effects included, before   *)
(* the next event; the one made by the interval callback is committed in a *)
(* later step.                                                             *)
(***************************************************************************)
\* The ranges of the two sliders: min and max of the inputs.
SsSpeedMin == 4
SsSpeedMax == 25
SsGridMin == 10
SsGridMax == 35

SsPresets(d) ==
    CASE d = "easy"   -> [speed |-> 8,  gridSize |-> 15, wallTeleport |-> TRUE]
      [] d = "medium" -> [speed |-> 12, gridSize |-> 20, wallTeleport |-> FALSE]
      [] d = "hard"   -> [speed |-> 18, gridSize |-> 25, wallTeleport |-> FALSE]

\* No interval and no frame callback is scheduled.  intervalRef and rafRef
\* tell whether the handle the ref holds is that of a live timer; every is
\* the speed the interval of intervalRef was created with.
SsNoTimers == [intervals |-> 0, intervalRef |-> FALSE, every |-> 0,
               frames |-> 0, rafRef |-> FALSE]

\* A mutant of SsRange: the value is taken as it was entered.
SsRange_Raw(min, max, raw) == raw

\* <input type="range" min max>: the value the input reports.
SsRange(min, max, raw) == IF raw < min THEN min ELSE IF raw > max THEN max ELSE raw

\* clearInterval(intervalRef.current)
SsClearInterval(t) ==
    IF t.intervalRef
      THEN [t EXCEPT !.intervals = @ - 1, !.intervalRef = FALSE, !.every = 0]
      ELSE t

\* cancelAnimationFrame(rafRef.current)
SsCancelFrame(t) ==
    IF t.rafRef THEN [t EXCEPT !.frames = @ - 1, !.rafRef = FALSE] ELSE t

\* A mutant of SsCleanup: the frame callback is not cancelled.
SsCleanup_KeepFrame(t) == SsClearInterval(t)

\* The cleanup of the render-loop effect.
SsCleanup(t) == SsClearInterval(SsCancelFrame(t))

\* The body of the render-loop effect: setInterval, requestAnimationFrame.
SsSetup(t, speed) ==
    [t EXCEPT !.intervals = @ + 1, !.intervalRef = TRUE, !.every = speed,
              !.frames = @ + 1, !.rafRef = TRUE]

\* The render-loop effect re-runs when gameState has changed from `from` to
\* `to`: the cleanup of the last run, if it had got past the menu test, and
\* the body.
SsRerun(t, from, to) ==
    LET cleaned == IF from = "menu" THEN t ELSE SsCleanup(t)
    IN  IF to = "menu" THEN cleaned ELSE SsSetup(cleaned, ssSettings.speed)

\* A step of the session `name`.
SsStep(name) ==
    /\ last' = name
    /\ UNCHANGED <<page, snakeVars, m3Vars, siVars, prVars, flVars, cbVars,
                   fmVars, plVars, fnVars>>

\* A mutant of SsRendered: the handlers of every screen can be reached in
\* every state.
SsRendered_AnyState(st) ==
    ssTimers.intervals < SsMaxTimers /\ ssTimers.frames < SsMaxTimers

\* The handlers of the screen that is rendered: the last commit is that of
\* the current state, and the model counts no more than SsMaxTimers timers.
SsRendered(st) ==
    /\ ssState = st /\ ssCommitted = st
    /\ ssTimers.intervals < SsMaxTimers /\ ssTimers.frames < SsMaxTimers

SsSelectDifficulty(d) ==
    /\ SsStep("SsSelectDifficulty") /\ SsRendered("menu")
    /\ ssDifficulty' = d
    /\ ssSettings' = IF d # "custom" THEN SsPresets(d) ELSE ssSettings
    /\ UNCHANGED <<ssState, ssCommitted, ssTimers>>

\* The sliders and the toggle of the custom settings.
SsSetSpeed(raw) ==
    /\ SsStep("SsSetSpeed") /\ SsRendered("menu") /\ ssDifficulty = "custom"
    /\ ssSettings' = [ssSettings EXCEPT !.speed = SsRange(SsSpeedMin, SsSpeedMax, raw)]
    /\ UNCHANGED <<ssState, ssCommitted, ssDifficulty, ssTimers>>

SsSetGridSize(raw) ==
    /\ SsStep("SsSetGridSize") /\ SsRendered("menu") /\ ssDifficulty = "custom"
    /\ ssSettings' = [ssSettings EXCEPT !.gridSize = SsRange(SsGridMin, SsGridMax, raw)]
    /\ UNCHANGED <<ssState, ssCommitted, ssDifficulty, ssTimers>>

SsToggleWall ==
    /\ SsStep("SsToggleWall") /\ SsRendered("menu") /\ ssDifficulty = "custom"
    /\ ssSettings' = [ssSettings EXCEPT !.wallTeleport = ~@]
    /\ UNCHANGED <<ssState, ssCommitted, ssDifficulty, ssTimers>>

\* A click or a key press changes the state, and the commit re-runs the
\* render-loop effect.
SsGoto(st) ==
    /\ ssState' = st
    /\ ssCommitted' = st
    /\ UNCHANGED <<ssDifficulty, ssSettings>>

SsStartGame ==
    /\ SsStep("SsStartGame") /\ SsRendered("menu")
    /\ SsGoto("playing")
    /\ ssTimers' = SsRerun(ssTimers, "menu", "playing")

SsTogglePause ==
    /\ SsStep("SsTogglePause")
    /\ \/ SsRendered("playing") /\ SsGoto("paused")
          /\ ssTimers' = SsRerun(ssTimers, "playing", "paused")
       \/ SsRendered("paused") /\ SsGoto("playing")
          /\ ssTimers' = SsRerun(ssTimers, "paused", "playing")

SsBackToMenu ==
    /\ SsStep("SsBackToMenu")
    /\ SsRendered("paused") \/ SsRendered("gameover")
    /\ SsGoto("menu")
    /\ ssTimers' = SsRerun(SsClearInterval(ssTimers), ssState, "menu")

SsPlayAgain ==
    /\ SsStep("SsPlayAgain") /\ SsRendered("gameover")
    /\ SsGoto("playing")
    /\ ssTimers' = SsRerun(ssTimers, "gameover", "playing")

\* The interval fires: tick returns at once unless the game is playing, and
\* a tick that finds a collision ends the run.
SsTick(over) ==
    /\ SsStep("SsTick") /\ ssTimers.intervals > 0
    /\ ssState' = IF ssState = "playing" /\ over THEN "gameover" ELSE ssState
    /\ UNCHANGED <<ssCommitted, ssDifficulty, ssSettings, ssTimers>>

\* A frame callback runs: draw, which requests the next frame.
SsDraw ==
    /\ SsStep("SsDraw") /\ ssTimers.frames > 0
    /\ ssTimers' = [ssTimers EXCEPT !.rafRef = TRUE]
    /\ UNCHANGED <<ssState, ssCommitted, ssDifficulty, ssSettings>>

\* The commit of the game-over state the tick has set.
SsCommit ==
    /\ SsStep("SsCommit") /\ ssCommitted # ssState
    /\ ssTimers.intervals < SsMaxTimers /\ ssTimers.frames < SsMaxTimers
    /\ ssCommitted' = ssState
    /\ ssTimers' = SsRerun(ssTimers, ssCommitted, ssState)
    /\ UNCHANGED <<ssState, ssDifficulty, ssSettings>>

\* The page is left and the component unmounted: the cleanup of the last
\* run of the effect.  The page is then entered again.
SsLeave ==
    /\ SsStep("SsLeave")
    /\ ssState' = "menu"
    /\ ssCommitted' = "menu"
    /\ ssDifficulty' = "medium"
    /\ ssSettings' = SsPresets("medium")
    /\ ssTimers' = SsRerun(ssTimers, ssCommitted, "menu")

SsInit ==
    /\ ssState = "menu"
    /\ ssCommitted = "menu"
    /\ ssDifficulty = "medium"
    /\ ssSettings = SsPresets("medium")
    /\ ssTimers = SsNoTimers

SsNext ==
    \/ \E d \in {"easy", "medium", "hard", "custom"} : SsSelectDifficulty(d)
    \/ \E raw \in {SsSpeedMin - SsOver, SsSpeedMax + SsOver} : SsSetSpeed(raw)
    \/ \E raw \in {SsGridMin - SsOver, SsGridMax + SsOver} : SsSetGridSize(raw)
    \/ SsToggleWall
    \/ SsStartGame
    \/ SsTogglePause
    \/ SsBackToMenu
    \/ SsPlayAgain
    \/ \E over \in BOOLEAN : SsTick(over)
    \/ SsDraw
    \/ SsCommit
    \/ SsLeave

(***************************************************************************)
(* Snake: properties                                                       *)
(***************************************************************************)
SnakeInRun == snakeState \in {"playing", "paused", "gameover"}

SnakeInGrid(p) ==
    /\ 0 <= p.x /\ p.x < snakeSettings.gridSize
    /\ 0 <= p.y /\ p.y < snakeSettings.gridSize

\* C2: a tick that finds the state menu, paused or gameover leaves the body,
\* the food, the committed direction and the score as they are; a tick that
\* finds it playing moves the snake or ends the run.
C2_TickOnlyWhilePlaying ==
    [][SnakeTick =>
          /\ snakeState # "playing" => UNCHANGED <<snake, food, dir, snakeScore>>
          /\ snakeState = "playing" => (snake' # snake \/ snakeState' = "gameover")
      ]_vars

\* A tick fired while the game was paused.
C2_Witness == last = "SnakeTick" /\ snakeState = "paused" /\ Len(snake) > 3

\* C7: without wall teleport, a tick whose next head cell is outside the grid
\* ends the run in that tick and leaves body, food and score as they were.
C7_WallDeath ==
    [][(/\ SnakeTick
        /\ snakeState = "playing"
        /\ ~snakeSettings.wallTeleport
        /\ LET nx == snake[1].x + DIRECTION_VECTORS(nextDir).x
               ny == snake[1].y + DIRECTION_VECTORS(nextDir).y
           IN  \/ nx < 0 \/ nx >= snakeSettings.gridSize
               \/ ny < 0 \/ ny >= snakeSettings.gridSize)
       => /\ snakeState' = "gameover"
          /\ UNCHANGED <<snake, food, snakeScore>>
      ]_vars

\* A run that a tick ended at a wall: the head is on an edge, heading out.
C7_Witness ==
    /\ last = "SnakeTick" /\ snakeState = "gameover"
    /\ ~snakeSettings.wallTeleport
    /\ LET nx == snake[1].x + DIRECTION_VECTORS(dir).x
           ny == snake[1].y + DIRECTION_VECTORS(dir).y
       IN  \/ nx < 0 \/ nx >= snakeSettings.gridSize
           \/ ny < 0 \/ ny >= snakeSettings.gridSize

\* C8: during a run every segment and the food are inside the grid, and with
\* wall teleport a head that leaves one edge re-enters at the opposite edge of
\* the same row or column.
C8_InGrid ==
    /\ [](SnakeInRun =>
            /\ \A i \in 1..Len(snake) : SnakeInGrid(snake[i])
            /\ SnakeInGrid(food))
    /\ [][(/\ SnakeTick /\ snakeState = "playing" /\ snakeState' = "playing"
           /\ snakeSettings.wallTeleport)
          => LET gs == snakeSettings.gridSize
                 nx == snake[1].x + DIRECTION_VECTORS(nextDir).x
                 ny == snake[1].y + DIRECTION_VECTORS(nextDir).y
             IN  /\ snake'[1].x = (IF nx < 0 THEN gs - 1 ELSE IF nx >= gs THEN 0 ELSE nx)
                 /\ snake'[1].y = (IF ny < 0 THEN gs - 1 ELSE IF ny >= gs THEN 0 ELSE ny)
         ]_vars

\* A head that wrapped from the right edge to the left one.
C8_Witness ==
    /\ last = "SnakeTick" /\ snakeState = "playing" /\ snakeSettings.wallTeleport
    /\ dir = "right" /\ snake[1].x = 0 /\ snake[2].x = snakeSettings.gridSize - 1

\* C9: while playing, no two segments of the body share a cell.
C9_NoDuplicates ==
    snakeState = "playing" =>
        \A i, j \in 1..Len(snake) : i # j => snake[i] # snake[j]

\* A snake long enough to bite itself whose head just took the cell the tail
\* left.
C9_Witness ==
    /\ last = "SnakeTick" /\ snakeState = "playing" /\ Len(snake) >= 4
    /\ LET t == snake[Len(snake)]
       IN  (snake[1].x - t.x) * (snake[1].x - t.x)
             + (snake[1].y - t.y) * (snake[1].y - t.y) = 1

\* C10: a surviving tick onto the food cell adds one segment and one point,
\* any other surviving tick leaves length and score alone, and during a run
\* the length is the score plus 3.
C10_EatGrows ==
    /\ [](SnakeInRun => Len(snake) = snakeScore + 3)
    /\ [][(SnakeTick /\ snakeState = "playing" /\ snakeState' = "playing")
          => IF snake'[1] = food
               THEN Len(snake') = Len(snake) + 1 /\ snakeScore' = snakeScore + 1
               ELSE Len(snake') = Len(snake) /\ snakeScore' = snakeScore
         ]_vars

\* A run in which the snake has eaten as often as the model lets it.
C10_Witness ==
    /\ last = "SnakeTick" /\ snakeState = "playing"
    /\ snakeScore = SnakeMaxScore /\ Len(snake) = SnakeMaxScore + 3

\* C11: the direction a tick commits is never the opposite of the direction
\* committed before it, whatever direction inputs came in between, and the
\* head of a surviving tick is not the cell of the old neck.
C11_NoReversal ==
    [][(last' = "SnakeTick" /\ snakeState = "playing")
          => /\ dir' # Opposite(dir)
             /\ snakeState' = "playing" => snake'[1] # snake[2]
      ]_vars

\* A run that started to the right and now moves to the left: two turns were
\* committed.
C11_Witness == last = "SnakeTick" /\ snakeState = "playing" /\ dir = "left"

\* C12 as stated: on the 20 x 20 board, the first tick after a fresh run in which
\* "down" was entered moves the head one cell to the right, and a tick off the
\* food leaves the score alone.
C12_RightThenDown ==
    [][(last = "SnakeStartGame" /\ nextDir = "down" /\ last' = "SnakeTick")
          => /\ snake'[1] = [x |-> 11, y |-> 10]
             /\ snake'[1] # food => snakeScore' = snakeScore
      ]_vars

\* C12, amended: on the 20 x 20 board, the first tick after a fresh run in which
\* "down" was entered moves the head from (10,10) down to (10,11), every later
\* tick with "down" still buffered moves the head of the snake of length 3 one
\* more cell down, so three ticks move it down three times, and a tick whose
\* head does not land on the food leaves the score alone.
C12_DownThrice ==
    [][(last' = "SnakeTick" /\ snakeState = "playing" /\ nextDir = "down"
          /\ nextDir' = nextDir)
          => /\ last = "SnakeStartGame"
                  => snake' = << [x |-> 10, y |-> 11], [x |-> 10, y |-> 10],
                                 [x |-> 9, y |-> 10] >>
             /\ Len(snake) = 3
                  => /\ snake'[1] = [x |-> snake[1].x, y |-> snake[1].y + 1]
                     /\ snakeState' = "playing"
             /\ dir' = "down"
             /\ snake'[1] # food => snakeScore' = snakeScore
      ]_vars

\* The third tick of the scenario: the head is three cells below the centre, the
\* body straight above it, and nothing was eaten.
C12_Witness ==
    /\ last = "SnakeTick" /\ snakeState = "playing" /\ snakeScore = 0
    /\ snake = << [x |-> 10, y |-> 13], [x |-> 10, y |-> 12], [x |-> 10, y |-> 11] >>

(***************************************************************************)
(* Match-Three: properties                                                 *)
(***************************************************************************)
\* C13: with three gem types or more, createBoard always finds a gem for the
\* cell it is filling, so it reaches the last cell, and the board it returns
\* holds no run of three or more equal gems: findMatches finds nothing in it.
C13_CreateBoardNoRuns ==
    /\ Len(cbGrid) < M3Size * M3Size => ENABLED CbNext
    /\ Len(cbGrid) = M3Size * M3Size => findMatches(cbGrid) = {}

\* A board createBoard has completed, with two equal gems side by side in its
\* last row and a third, different gem closing the row.
C13_Witness ==
    /\ Len(cbGrid) = M3Size * M3Size
    /\ cbGrid[M3Size * M3Size - 1] = cbGrid[M3Size * M3Size - 2]
    /\ cbGrid[M3Size * M3Size] # cbGrid[M3Size * M3Size - 1]

\* C14: whenever the animation state is idle (before the first run, at its
\* start, after a swap was taken back, after a cascade settled with or without
\* a reshuffle), the board holds no run of three or more equal gems.
C14_IdleNoMatches ==
    m3Anim = "idle" => (m3Grid = << >> \/ findMatches(m3Grid) = {})

\* A cascade has settled: the board is at rest again and the swap has scored.
C14_Witness == m3Anim = "idle" /\ m3State = "playing" /\ m3Score > 0

\* A run is (re)started: initGame replaces the board.
M3InitStep == m3State \in {"menu", "gameover"} /\ m3State' = "playing"

\* C15: a swap that makes no run of three or more is answered by
\* swapping-back, and from the tap or swipe that starts the swap until
\* swapping-back has ended in idle, the board, the score and the cascade level
\* stay what they were before the swap.
C15_FailedSwapRestores ==
    [][~M3InitStep
          => /\ (m3Anim = "swapping" /\ m3Anim' # "swapping")
                  => (m3Anim' = "swapping-back"
                        <=> findMatches(M3Swapped(m3Grid, m3SwapFrom, m3SwapTo)) = {})
             /\ (\/ m3Anim = "idle" /\ m3Anim' = "swapping"
                 \/ m3Anim = "swapping" /\ m3Anim' \in {"swapping", "swapping-back"}
                 \/ m3Anim = "swapping-back" /\ m3Anim' \in {"swapping-back", "idle"})
                  => UNCHANGED <<m3Grid, m3Score, m3Cascade>>
      ]_vars

\* A swap was made and taken back: the board is at rest, and no swap of the
\* run has scored.
C15_Witness ==
    /\ m3State = "playing" /\ m3Anim = "idle"
    /\ m3SwapFrom # m3SwapTo /\ m3Score = 0

\* The points of the runs of a match list as C16 states them: 50 for a run of
\* three, 150 for a run of four, 300 for a longer run.
M3Expected(matches) ==
    50 * Cardinality({m \in matches : Cardinality(m) <= 3})
      + 150 * Cardinality({m \in matches : Cardinality(m) = 4})
      + 300 * Cardinality({m \in matches : Cardinality(m) >= 5})

\* A run of len cells in a row of a board wide enough to hold it.
M3RunOf(row, len) == {[row |-> row, col |-> c] : c \in 0..(len - 1)}

\* calcScore on two runs of 3 to M3MaxRun cells, at every cascade level.
M3CalcScoreAsExpected ==
    \A a \in 3..M3MaxRun, b \in 3..M3MaxRun, n \in 1..(M3MaxCascade + 1) :
        LET matches == {M3RunOf(0, a), M3RunOf(1, b)}
        IN  calcScore(matches, n) = n * M3Expected(matches)

\* C16: the swap's own match sets the cascade level to 1, every further match
\* found after a fall raises it by one, and the settle resets it to 0; each of
\* these matches adds the level it set times the points of its runs, a run
\* being worth 50, 150 or 300 points for 3, 4 or more cells (the last two
\* lengths are put to calcScore directly, the board holding no such run).
C16_CascadeScore ==
    [][/\ (m3Anim = "swapping" /\ m3Anim' = "clearing")
            => /\ m3Cascade' = 1
               /\ findMatches(m3Grid') # {}
               /\ m3Score' = m3Score + 1 * M3Expected(findMatches(m3Grid'))
       /\ (m3Anim = "falling" /\ m3Anim' = "clearing")
            => /\ m3Cascade' = m3Cascade + 1
               /\ findMatches(m3Grid') # {}
               /\ m3Score' = m3Score + m3Cascade' * M3Expected(findMatches(m3Grid'))
       /\ (m3Anim = "clearing" /\ m3Anim' = "falling")
            => UNCHANGED <<m3Cascade, m3Score>>
       /\ (m3Anim = "falling" /\ m3Anim' = "idle") => m3Cascade' = 0
       /\ M3CalcScoreAsExpected
      ]_vars

\* The second chain of a cascade has just been scored.
C16_Witness == m3Anim = "clearing" /\ m3Cascade = 2 /\ m3Score >= 150

\* C17: whenever the animation state is idle in a run (at its start and after
\* every settle), some swap of two adjacent gems of the board makes a match.
C17_ValidMoveAtIdle ==
    (m3Anim = "idle" /\ m3Grid # << >>) => findValidMove(m3Grid) # << >>

\* The edges of the animation state.
M3AnimEdges ==
    { <<"idle", "swapping">>, <<"swapping", "swapping-back">>,
      <<"swapping", "clearing">>, <<"swapping-back", "idle">>,
      <<"clearing", "falling">>, <<"falling", "clearing">>, <<"falling", "idle">> }

C19_FormationStep ==
    [][last' = "FmStep"
          => LET reverse ==
                     \E a \in SIAlienIds :
                         /\ fmAliens[a].alive
                         /\ \/ fmAliens[a].x + fmDir * FmSpeed < 4
                            \/ fmAliens[a].x + fmDir * FmSpeed + fmAliens[a].w > fmW - 4
             IN  IF reverse
                   THEN /\ fmDir' = 0 - fmDir
                        /\ \A a \in SIAlienIds :
                              fmAliens[a].alive
                                => /\ fmAliens'[a].y = fmAliens[a].y + FmDrop
                                   /\ fmAliens'[a].x = fmAliens[a].x
                   ELSE /\ fmDir' = fmDir
                        /\ \A a \in SIAlienIds :
                              fmAliens[a].alive
                                => /\ fmAliens'[a].x = fmAliens[a].x + fmDir * FmSpeed
                                   /\ fmAliens'[a].y = fmAliens[a].y
      ]_vars

\* The formation has just moved sideways past a dead alien that lies where an
\* alive one would have turned it round.
C19_Witness ==
    /\ last = "FmStep"
    /\ \E a \in SIAlienIds, b \in SIAlienIds :
          /\ ~fmAliens[a].alive /\ fmAliens[b].alive
          /\ fmAliens[b].y = fmAliens[a].y
          /\ fmDir = 1
          /\ fmAliens[a].x + FmSpeed + fmAliens[a].w > fmW - 4
          /\ fmAliens[b].x > fmAliens[a].x - (FmAlienW + FmPadX)

\* C20: a frame that destroys the last alive alien of a wave while playing
\* starts the next wave in the same frame, unless the run ends in it: the wave
\* number goes up by one, every alien of the formation is alive again, the
\* score is the score with the points of that last alien (the ship of
\* SISettings has one bullet in flight, so the frame scores nothing else), and
\* the lives are the lives left after the frame's hit, if any.  A frame that
\* ends the run starts no wave, and no frame leaves a run playing without an
\* alive alien.
C20_NextWave ==
    [][(last' = "SIFrame" /\ siState = "playing")
          => /\ siWave' \in {siWave, siWave + 1}
             /\ siWave' = siWave + 1
                  => /\ siState' = "playing"
                     /\ \A a \in SIAlienIds : siAliens'[a]
                     /\ siAlienCount' = SIRows * SICols
                     /\ \E a \in SIAlienIds :
                           /\ siAliens[a] /\ \A b \in SIAlienIds \ {a} : ~siAliens[b]
                           /\ siScore' = siScore
                                + ALIEN_POINTS(SIAlienType(SIAlienRow(a))) * siWave
                     /\ siLives' \in {siLives, siLives - 1} /\ siLives' > 0
             /\ siState' = "gameover" => (siWave' = siWave /\ siScore' >= siScore)
             /\ siState' = "playing" => \E a \in SIAlienIds : siAliens'[a]
      ]_vars

\* The second wave has just begun, with the points of the first and after the
\* loss of a life.
C20_Witness ==
    /\ last = "SIFrame" /\ siState = "playing" /\ siWave = 2
    /\ \A a \in SIAlienIds : siAliens[a]
    /\ siScore > 0 /\ siLives = SILives - 1 /\ siPBullets = 0

\* C32: after a hit the ship is invincible for the length of the window, a
\* hit costs exactly one life, and the time the game is paused does not
\* count: what is left of the window does not change while the game is
\* paused.
C32_InvincibilityWindow ==
    [][/\ siLives' < siLives
            => /\ siLives' = siLives - 1
               /\ siInvLeft < 0 \/ siInvLeft - siDt' < 0
       /\ (siState = "paused" /\ siState' = "paused") => siInvLeft' = siInvLeft
      ]_vars

(***************************************************************************)
(* Pixel Runner: properties                                                *)
(***************************************************************************)
\* C21: every platform generation pass, the one of initGame and the one of
\* every playing frame, comes to its end, and at its end the rightmost
\* platform edge is at least canvasWidth + SPAWN_AHEAD, whatever gaps and
\* widths were drawn.
C21_PassCompletes ==
    /\ [](plPc = "done" => plRight >= plW + PlAhead)
    /\ (plPc = "generating" ~> plPc = "done")

\* A pass has ended as far to the right as a pass can: its last platform began
\* one pixel short of the mark and was the widest one after the widest gap.
C21_Witness ==
    /\ last = "PlExit" /\ plPc = "done"
    /\ plRight = plW + PlAhead + PlGapMax + PlWidthMax - 1

\* C22: the remaining-jump counter stays within 0..maximum; during a run it
\* rises only in a frame that finds a landing, and then to the maximum; it
\* falls only in a frame that executes a jump, and then by one; a frame
\* executes a jump (sets the vertical velocity to JUMP_VELOCITY) only when a
\* jump was pressed and the counter was above zero, so a press with no jump
\* left leaves the velocity to gravity alone.
C22_JumpCounter ==
    /\ [](prJumpsLeft \in 0..(IF PRSettings.doubleJump THEN 2 ELSE 1))
    /\ [][/\ prJumpsLeft' > prJumpsLeft
              => \/ prState = "menu" \/ prState = "gameover"
                 \/ /\ last' = "PRFrame" /\ prFrameEv' = "land"
                    /\ prJumpsLeft' = (IF PRSettings.doubleJump THEN 2 ELSE 1)
          /\ prJumpsLeft' < prJumpsLeft
              => /\ last' = "PRFrame" /\ prFrameEv' = "jump"
                 /\ prJumpsLeft' = prJumpsLeft - 1
          /\ (last' = "PRFrame" /\ ~prJumpPressed' /\ prFrameEv' = "jump")
              => /\ prJumpPressed /\ prJumpsLeft > 0
                 /\ prJumpsLeft' = prJumpsLeft - 1
          /\ (last' = "PRFrame" /\ ~prJumpPressed' /\ prJumpPressed /\ prJumpsLeft = 0)
              => /\ prFrameEv' \in {"refused", "land"}
                 /\ prFrameEv' = "refused" => prJumpsLeft' = 0
      ]_vars

\* A frame has just swallowed a jump press made in mid-air with no jump left.
C22_Witness ==
    /\ last = "PRFrame" /\ prState = "playing" /\ prJumpsLeft = 0
    /\ prFrameEv = "refused" /\ ~prJumpPressed

(***************************************************************************)
(* Flappy Bird: properties                                                 *)
(***************************************************************************)
\* C23: right after a flap made in the ready or in the playing state the
\* velocity of the bird is FLAP_STRENGTH, -7.5 pixels per frame, whatever it
\* was before, and the game is playing.
C23_FlapSetsVelocity ==
    [][(last' = "FlFlap" /\ flState \in {"ready", "playing"})
          => flVelocity' = 0 - 750 /\ flState' = "playing"
      ]_vars

\* A flap in mid-flight, after two frames of gravity.
C23_Witness ==
    /\ last = "FlFlap" /\ flState = "playing" /\ flFrame >= 2
    /\ flVelocity = 0 - 750

\* The pipes that are not scored, by the frame they were spawned in.
FlUnscored(pipes) == {pipes[i].born : i \in {j \in 1..Len(pipes) : ~pipes[j].scored}}

\* C24: the scored flag of a pipe goes from false to true once and never
\* back, each such change adds exactly 1 to the score, so that the score is
\* the number of pipes scored in the run, and a pipe is removed only after
\* it has been scored.
C24_ScoredOnce ==
    /\ [](/\ flGone.unscored = 0
          /\ flScore = flGone.scored
                         + Cardinality({i \in 1..Len(flPipes) : flPipes[i].scored}))
    /\ [][(flState = "playing" /\ last' = "FlLoop")
            => /\ \A i \in 1..Len(flPipes), j \in 1..Len(flPipes') :
                     (flPipes[i].born = flPipes'[j].born /\ flPipes[i].scored)
                         => flPipes'[j].scored
               /\ LET spawned == IF flFrame' % FlSpawnInterval = 0
                                   THEN {flFrame'} ELSE {}
                      before == FlUnscored(flPipes) \cup spawned
                      lost == flGone'.unscored - flGone.unscored
                  IN  flScore' - flScore
                         = Cardinality(before \ FlUnscored(flPipes')) - lost
          ]_vars

\* A pipe has been scored and, in this frame, removed; another one is on the
\* screen, not scored yet.
C24_Witness ==
    /\ last = "FlLoop" /\ flState = "playing"
    /\ flGone.scored = 1 /\ flScore = 1
    /\ Len(flPipes) = 1 /\ ~flPipes[1].scored

(***************************************************************************)
(* The state machines, the frame clock, the score and the best score       *)
(***************************************************************************)
\* C1: in Snake, Match-Three, Space Invaders and Pixel Runner the state
\* changes only along menu->playing, playing->paused, paused->playing,
\* playing->gameover, gameover->playing, paused->menu and gameover->menu.
C1_FsmEdges ==
    [][LET edges == {<<"menu", "playing">>, <<"playing", "paused">>,
                     <<"paused", "playing">>, <<"playing", "gameover">>,
                     <<"gameover", "playing">>, <<"paused", "menu">>,
                     <<"gameover", "menu">>}
       IN  /\ snakeState' # snakeState => <<snakeState, snakeState'>> \in edges
           /\ m3State' # m3State => <<m3State, m3State'>> \in edges
           /\ siState' # siState => <<siState, siState'>> \in edges
           /\ prState' # prState => <<prState, prState'>> \in edges
      ]_vars

\* A Space Invaders run that was lost and then left for the menu.
C1_Witness == siState = "menu" /\ last = "SIBackToMenu" /\ siLives = 0

\* C3: a Match-Three frame drawn while the state is paused or gameover
\* leaves the board, the score and the cascade level as they were.
C3_FrozenUnlessPlaying ==
    [][(M3DrawStep /\ m3State \in {"paused", "gameover"})
          => UNCHANGED <<m3Grid, m3Score, m3Cascade>>
      ]_vars

\* C4: in Space Invaders and Pixel Runner the time a frame hands to the
\* update is between 0 and 50 ms, a frame that finds the state paused
\* changes nothing of the game, and the first frame after start, restart or
\* resume hands over 0 and changes nothing of the game.
C4_FrameTime ==
    /\ [](siDt \in 0..50 /\ prDt \in 0..50)
    /\ [][(last' = "SIFrame" /\ siState = "paused")
             => UNCHANGED <<siState, siWorld>>]_vars
    /\ [][(last' = "PRFrame" /\ prState = "paused")
             => UNCHANGED <<prState, prWorld>>]_vars
    /\ [][(last' = "SIFrame" /\ last \in {"SIStartGame", "SIPlayAgain", "SIResume"})
             => siDt' = 0 /\ UNCHANGED <<siState, siWorld>>]_vars
    /\ [][(last' = "PRFrame" /\ last \in {"PRStartGame", "PRPlayAgain", "PRResume"})
             => prDt' = 0 /\ UNCHANGED <<prState, prWorld>>]_vars

\* A Space Invaders frame that came 75 ms after the previous one and handed
\* the cap to the update.
C4_Witness == last = "SIFrame" /\ siState = "playing" /\ siDt = 50 /\ siScore > 0

\* C5: in every game a step that lowers the score is a start or a restart
\* (Pixel Runner's score is floor(distance / 10) + 100 * coins).
C5_ScoreMonotone ==
    [][/\ snakeScore' < snakeScore => (snakeState = "menu" \/ SnakePlayAgain)
       /\ flScore' < flScore => (flState = "gameover" /\ FlFlap)
       /\ m3Score' < m3Score => (M3StartGame \/ M3PlayAgain)
       /\ siScore' < siScore => (SIStartGame \/ SIPlayAgain)
       /\ (prDistance' \div 10) + 100 * prCoins' < (prDistance \div 10) + 100 * prCoins
             => (PRStartGame \/ PRPlayAgain)
      ]_vars

\* A Space Invaders run that took its score into the second wave.
C5_Witness == siState = "playing" /\ siWave = 2 /\ siScore > 0

\* C6: in every game the stored best score changes only in a step that
\* enters gameover, only to the score the run ends with, and only when that
\* score is greater than the best stored before.
C6_BestWrittenAtGameOver ==
    [][/\ snakeStored' # snakeStored
            => /\ snakeState # "gameover" /\ snakeState' = "gameover"
               /\ snakeStored' = snakeScore' /\ snakeScore' > StoredBest(snakeStored)
       /\ flStored' # flStored
            => /\ flState # "gameover" /\ flState' = "gameover"
               /\ flStored' = flScore' /\ flScore' > StoredBest(flStored)
       /\ m3Stored' # m3Stored
            => /\ m3State # "gameover" /\ m3State' = "gameover"
               /\ m3Stored' = m3Score' /\ m3Score' > StoredBest(m3Stored)
       /\ siStored' # siStored
            => /\ siState # "gameover" /\ siState' = "gameover"
               /\ siStored' = siScore' /\ siScore' > StoredBest(siStored)
       /\ prStored' # prStored
            => /\ prState # "gameover" /\ prState' = "gameover"
               /\ prStored' = (prDistance' \div 10) + 100 * prCoins'
               /\ prStored' > StoredBest(prStored)
      ]_vars

\* C33: the self-collision rule of a tick.  If the tick does not eat, a new
\* head on the cell of the tail is no collision, the snake moves and stays
\* free of duplicates, while a new head on any other cell of the body ends
\* the run in that tick and leaves the snake where it is; if the tick eats,
\* the new head is checked against the whole body, the tail included.
C33_SelfCollision ==
    [][(/\ snakeState = "playing" /\ last' = "SnakeTick" /\ nextDir' = nextDir
        /\ snakeSettings.wallTeleport
              \/ ~SnakeOutside(SnakeAhead(snake, nextDir), snakeSettings.gridSize))
          => LET ahead == SnakeAhead(snake, nextDir)
                 newHead == IF snakeSettings.wallTeleport
                              THEN SnakeWrap(ahead, snakeSettings.gridSize) ELSE ahead
                 n == Len(snake)
                 front == {snake[i] : i \in 1..(n - 1)}
             IN  IF newHead # food
                   THEN IF newHead \in front
                          THEN snakeState' = "gameover" /\ snake' = snake
                          ELSE /\ snakeState' = "playing"
                               /\ snake' = <<newHead>> \o SubSeq(snake, 1, n - 1)
                               /\ Cardinality({snake'[i] : i \in 1..n}) = n
                   ELSE (newHead \in front \/ newHead = snake[n])
                           => snakeState' = "gameover" /\ snake' = snake
      ]_vars

\* On a full board, with the fallback food under the tail, the head has come
\* round to the cell of the tail: the tick ate, and that was a collision.
C33_Witness ==
    /\ last = "SnakeTick" /\ snakeState = "gameover"
    /\ Len(snake) = SnakeGrid * SnakeGrid
    /\ food = snake[Len(snake)]
    /\ (snake[1].x - food.x) * (snake[1].x - food.x)
          + (snake[1].y - food.y) * (snake[1].y - food.y) = 1

(***************************************************************************)
(* Snake and Match-Three: Play Again                                       *)
(***************************************************************************)
\* C25: Play Again, taken from the game-over state of Snake or Match-Three,
\* leaves the game playing and initialised as a first start under the same
\* settings does: the score is 0, the snake has three segments in the middle
\* of the board and heads right with the buffered direction right, the food
\* is on a free cell; the time of Match-Three is the time limit, its cascade
\* level 0, its animation idle, its board one a first start can deal; the
\* settings are those of the run that ended.
C25_PlayAgain ==
    [][/\ (snakeState = "gameover" /\ snakeState' # "gameover")
          => \/ snakeState' = "menu"
             \/ /\ snakeState' = "playing"
                /\ snakeSettings' = snakeSettings
                /\ snakeScore' = 0
                /\ LET mid == snakeSettings.gridSize \div 2
                   IN  snake' = << [x |-> mid, y |-> mid], [x |-> mid - 1, y |-> mid],
                                   [x |-> mid - 2, y |-> mid] >>
                /\ dir' = "right" /\ nextDir' = "right"
                /\ food' \notin SnakeCells(snake')
                /\ food'.x \in 0..(snakeSettings.gridSize - 1)
                /\ food'.y \in 0..(snakeSettings.gridSize - 1)
       /\ (m3State = "gameover" /\ m3State' # "gameover")
          => \/ m3State' = "menu"
             \/ /\ m3State' = "playing"
                /\ m3Score' = 0
                /\ m3Time' = M3TimeLimit
                /\ m3Cascade' = 0
                /\ m3Anim' = "idle"
                /\ m3Selected' = M3NoCell
                /\ m3Grid' \in M3FreshBoards
      ]_vars

\* Play Again after a run of Snake that scored.
C25_Witness ==
    /\ last = "SnakePlayAgain" /\ snakeState = "playing"
    /\ snakeScore = 0 /\ snakeBest > 0 /\ Len(snake) = 3

(***************************************************************************)
(* Snake: the session, properties                                          *)
(***************************************************************************)
\* C26: the settings of a run of Snake are frozen from its start until the
\* game is back in the menu: no step taken in the playing, paused or
\* game-over state, other than one to the menu, changes the speed, the grid
\* size or the wall mode the tick reads, and the tick interval, whenever
\* there is one in a run, has the period of the speed of those settings.
C26_SettingsFrozen ==
    /\ []((ssState # "menu" /\ ssTimers.intervalRef)
             => ssTimers.every = ssSettings.speed)
    /\ [][(ssState \in {"playing", "paused", "gameover"} /\ ssState' # "menu")
            => ssSettings' = ssSettings
          ]_vars

\* A second run under custom settings, begun with Play Again.
C26_Witness ==
    /\ last = "SsPlayAgain" /\ ssState = "playing" /\ ssDifficulty = "custom"
    /\ ssSettings = [speed |-> 25, gridSize |-> 10, wallTeleport |-> TRUE]
    /\ ssTimers.intervalRef /\ ssTimers.every = 25

\* C27: custom settings that are out of range are clamped: at the start of
\* every run of Snake the speed is within 4..25 and the grid size within
\* 10..35, whatever was entered.
C27_SettingsInRange ==
    [][(ssState \in {"menu", "gameover"} /\ ssState' = "playing")
          => /\ ssSettings'.speed \in 4..25
             /\ ssSettings'.gridSize \in 10..35
      ]_vars

\* A run started with both sliders dragged beyond an end of their ranges.
C27_Witness ==
    /\ last = "SsStartGame" /\ ssState = "playing" /\ ssDifficulty = "custom"
    /\ ssSettings.speed = 25 /\ ssSettings.gridSize = 10

\* C28: stopping Snake, by going back to the menu or by leaving the page,
\* cancels the frame callback and the tick interval: in the menu no interval
\* and no frame callback is scheduled, and at any time at most one interval
\* and at most one frame callback are live.
C28_TimersCancelled ==
    /\ ssTimers.intervals <= 1
    /\ ssTimers.frames <= 1
    /\ ssState = "menu" => ssTimers.intervals = 0 /\ ssTimers.frames = 0

\* Back in the menu after a run that ended.
C28_Witness ==
    /\ last = "SsBackToMenu" /\ ssState = "menu"
    /\ ssTimers = SsNoTimers /\ ssDifficulty = "hard"

(***************************************************************************)
(* The stored best score: a missing or a corrupt value                     *)
(***************************************************************************)
\* C29: a stored best score that is missing or is not a number is taken as
\* zero: the best score of the game is a number from the start, and once a
\* run has ended with a positive score the stored value is a number not
\* below that score.
C29_CorruptBestIsZero ==
    /\ flBest >= 0
    /\ (flState = "gameover" /\ flScore > 0) => flStored >= flScore

(***************************************************************************)
(* Snake: the food on a board that fills up                                *)
(***************************************************************************)
\* C30: spawnFood does not fail.  When the snake has eaten and a cell is
\* left free the new food is inside the grid and not on the snake; when the
\* snake fills the board the food is the fallback cell (0, 0).  After the
\* fallback the run goes on: the snake stays a body of distinct cells
\* inside the grid, a tick moves it or ends the run with a collision, and
\* nothing is eaten any more.
C30_SpawnFood ==
    /\ []((SnakeInRun /\ Len(snake) = snakeSettings.gridSize * snakeSettings.gridSize)
            => /\ food = [x |-> 0, y |-> 0]
               /\ \A i \in 1..Len(snake) : SnakeInGrid(snake[i])
               /\ Cardinality({snake[i] : i \in 1..Len(snake)}) = Len(snake))
    /\ [][/\ snakeScore' = snakeScore + 1
              => /\ Len(snake') = Len(snake) + 1
                 /\ IF Len(snake') < snakeSettings.gridSize * snakeSettings.gridSize
                      THEN /\ SnakeInGrid(food')
                           /\ \A i \in 1..Len(snake') : snake'[i] # food'
                      ELSE food' = [x |-> 0, y |-> 0]
          /\ (/\ Len(snake) = snakeSettings.gridSize * snakeSettings.gridSize
              /\ snakeState = "playing" /\ last' = "SnakeTick" /\ nextDir' = nextDir)
              => /\ snakeScore' = snakeScore /\ food' = food
                 /\ \/ snakeState' = "gameover" /\ snake' = snake
                    \/ /\ snakeState' = "playing" /\ snake'[1] = snake[Len(snake)]
                       /\ Len(snake') = Len(snake)
          ]_vars

\* The snake fills the board, has moved on into the cell its tail left, and
\* the run has then ended with a collision.
C30_Witness ==
    /\ Len(snake) = SnakeGrid * SnakeGrid /\ food = [x |-> 0, y |-> 0]
    /\ snakeState = "gameover" /\ snake[1] # food /\ snake[Len(snake)] # food

(***************************************************************************)
(* The best score on the game-over screen                                  *)
(***************************************************************************)
\* C31: while a game is in the gameover state the persisted best score is
\* at least the score of the run that has ended, the score the game-over
\* screen shows.
C31_BestCoversFinalScore ==
    /\ snakeState = "gameover" => StoredBest(snakeStored) >= snakeScore
    /\ flState = "gameover" => StoredBest(flStored) >= flScore
    /\ m3State = "gameover" => StoredBest(m3Stored) >= m3Score
    /\ siState = "gameover" => StoredBest(siStored) >= siScore
    /\ prState = "gameover"
          => StoredBest(prStored) >= (prDistance \div 10) + 100 * prCoins

(***************************************************************************)
(* Flappy Bird: the states and the steps between them                      *)
(***************************************************************************)
\* C39: the state is ready, playing or gameover; it changes only from ready
\* to playing by a flap, from playing to gameover by a frame and from
\* gameover to ready by a flap; the flap on gameover resets the score, the
\* pipes, the frame counter and the velocity and leads to ready, not to
\* playing; a frame changes the world only while playing.
C39_FlappyStates ==
    /\ [](flState \in {"ready", "playing", "gameover"})
    /\ [][/\ flState' # flState
               => \/ flState = "ready" /\ flState' = "playing" /\ last' = "FlFlap"
                  \/ flState = "playing" /\ flState' = "gameover" /\ last' = "FlLoop"
                  \/ flState = "gameover" /\ flState' = "ready" /\ last' = "FlFlap"
          /\ (flState = "gameover" /\ last' = "FlFlap")
               => /\ flState' = "ready"
                  /\ flScore' = 0
                  /\ flPipes' = << >>
                  /\ flFrame' = 0
                  /\ flVelocity' = 0
          /\ (flState # "playing" /\ last' = "FlLoop")
               => UNCHANGED <<flVelocity, flFrame, flPipes, flScore, flState>>
          /\ flFrame' > flFrame => flState = "playing"
         ]_vars

\* A run with a score has ended, and the flap on its game-over screen has
\* led to ready.
C39_Witness ==
    /\ last = "FlFlap"
    /\ flState = "ready"
    /\ flStored >= 1
    /\ flScore = 0

(***************************************************************************)
(* Match-Three: what applyGravity returns                                  *)
(***************************************************************************)
\* applyGravity has returned.
AgDone == agGrid # << >> /\ agCol = M3Size

\* The gems of a column of a board, from the top row down, the empty cells
\* left out.
AgSurvivors(g, c) ==
    SelectSeq([k \in 1..M3Size |-> M3At(g, k - 1, c)], LAMBDA t : t >= 0)

\* C34: applyGravity returns a board of the same dimensions with no empty
\* cell; in every column the gems that were there keep their order and fill
\* the bottom rows, and the cells above them hold new gems of a valid type;
\* every fall record moves its gem to a row strictly below the row it comes
\* from, a new gem coming from a negative row; the board given is not
\* written.
C34_GravityFills ==
    /\ [](AgDone =>
            /\ DOMAIN agNew = DOMAIN agGrid
            /\ \A i \in DOMAIN agNew : agNew[i] \in M3Gems(M3Settings.gemTypes)
            /\ \A c \in M3Rows :
                  LET s == AgSurvivors(agGrid, c)
                      top == M3Size - Len(s)
                  IN  /\ \A k \in 1..Len(s) : M3At(agNew, top + k - 1, c) = s[k]
                      /\ \A r \in 0..(top - 1) :
                            \E d \in agFall :
                               /\ d.col = c /\ d.toRow = r /\ d.fromRow < 0
                               /\ d.gemType = M3At(agNew, r, c)
            /\ \A d \in agFall :
                  /\ d.toRow > d.fromRow
                  /\ d.toRow \in M3Rows
                  /\ M3At(agNew, d.toRow, d.col) = d.gemType
                  /\ d.fromRow >= 0 => M3At(agGrid, d.fromRow, d.col) = d.gemType
            /\ \A i \in DOMAIN agNew :
                  M3Sunk(agGrid)[i] >= 0 => agNew[i] = M3Sunk(agGrid)[i])
    /\ [][agGrid' = agGrid]_vars

\* A gem has fallen past a cleared cell onto a gem that stayed, and a new
\* gem has come in above it.
C34_Witness ==
    /\ AgDone
    /\ \E c \in M3Rows :
          /\ M3At(agGrid, 0, c) >= 0
          /\ M3At(agGrid, 1, c) < 0
          /\ M3At(agGrid, M3Size - 1, c) >= 0
          /\ \E d \in agFall : d.col = c /\ d.fromRow = 0 /\ d.toRow > 0
          /\ \E d \in agFall : d.col = c /\ d.fromRow < 0

(***************************************************************************)
(* Match-Three: wouldMatch and findValidMove against the swap of the game  *)
(***************************************************************************)
\* The swap of two cells is accepted by the game: findMatches finds a match
\* on the board with the two gems exchanged.
WmAccepted(g, a, b) == findMatches(M3Swapped(g, a, b)) # {}

\* The pairs findValidMove tries and the place of each in its scan: the
\* rows from the top, the columns from the left, the right neighbour before
\* the lower one.
WmScan ==
    {<<a, b>> \in M3Cells \X M3Cells :
        \/ a.row = b.row /\ b.col = a.col + 1
        \/ a.col = b.col /\ b.row = a.row + 1}
WmRank(p) == 2 * (p[1].row * M3Size + p[1].col) + (IF p[2].row = p[1].row THEN 0 ELSE 1)

\* C35: on a board with no match, wouldMatch on two adjacent cells is true
\* exactly when findMatches finds a match on the board with the two gems
\* exchanged, and it leaves the board as it was; findValidMove returns a
\* pair exactly when the game would accept some swap, and the pair is the
\* first such one of its scan.
C35_WouldMatchIsTheSwap ==
    /\ [](/\ wmOut.call = "wouldMatch"
               => wmOut.found = WmAccepted(wmGrid, wmOut.from, wmOut.to)
          /\ wmOut.call = "findValidMove"
               => /\ (wmOut.move = << >>)
                        = (\A a \in M3Cells, b \in M3Cells :
                              M3Adjacent(a, b) => ~WmAccepted(wmGrid, a, b))
                  /\ wmOut.move # << >>
                        => /\ wmOut.move \in WmScan
                           /\ WmAccepted(wmGrid, wmOut.move[1], wmOut.move[2])
                           /\ \A p \in WmScan :
                                 WmRank(p) < WmRank(wmOut.move)
                                    => ~WmAccepted(wmGrid, p[1], p[2]))
    /\ [][wmGrid' = wmGrid]_vars

\* findValidMove has returned a pair that is not the first it tried.
C35_Witness ==
    /\ wmOut.call = "findValidMove"
    /\ wmOut.move # << >>
    /\ WmRank(wmOut.move) > 1

(***************************************************************************)
(* Space Invaders: who shoots, and the count of the aliens                 *)
(***************************************************************************)
\* C36: every enemy bullet is spawned at an alien that is alive and has no
\* live alien in a lower row of its column; when no alien is alive the
\* enemy fire spawns no bullet.
C36_BottomAlienShoots ==
    [][/\ efEnemy' > efEnemy
            => /\ efShooter' \in EfIds
               /\ efAlive[efShooter']
               /\ \A a \in EfIds :
                     (EfCol(a) = EfCol(efShooter') /\ EfRow(a) > EfRow(efShooter'))
                        => ~efAlive[a]
       /\ (\A a \in EfIds : ~efAlive[a]) => efEnemy' <= efEnemy
      ]_vars

\* An alien of the upper row has shot, the alien below it being dead and an
\* alien of the other column alive in the lower row.
C36_Witness ==
    /\ last = "EfFire"
    /\ efShooter \in EfIds
    /\ EfRow(efShooter) = 0
    /\ efAlive[efShooter]
    /\ ~efAlive[efShooter + EfCols]
    /\ \E a \in EfIds : EfRow(a) = EfRows - 1 /\ efAlive[a]

\* C37: alienCount is the number of aliens whose alive flag is set; a player
\* bullet kills one alien at most and is used up by the kill, which takes
\* one off alienCount; alienCount is 0 exactly when no alien is alive, and
\* a wave begins only then, and is the next one.
C37_CountIsAlive ==
    /\ [](/\ efCount = Cardinality({a \in EfIds : efAlive[a]})
          /\ (efCount <= 0) = (\A a \in EfIds : ~efAlive[a]))
    /\ [][/\ (\E a \in EfIds : efAlive[a] /\ ~efAlive'[a])
               => /\ Cardinality({a \in EfIds : efAlive[a] /\ ~efAlive'[a]}) = 1
                  /\ efPlayer' = efPlayer - 1
                  /\ efCount' = efCount - 1
          /\ efWave' # efWave
               => /\ efWave' = efWave + 1
                  /\ \A a \in EfIds : ~efAlive[a]
         ]_vars

\* The second wave has begun, and one of its aliens is dead.
C37_Witness ==
    /\ efWave = 2
    /\ efCount = EfRows * EfCols - 1
    /\ \E a \in EfIds : ~efAlive[a]

(***************************************************************************)
(* Space Invaders and Pixel Runner: no frame updates the world of the run  *)
(* before                                                                  *)
(***************************************************************************)
\* C38: from startGame or playAgain to the initGame of the render-loop
\* effect no frame runs the update: it neither changes the world of the run
\* before nor ends the run that has begun.
C38_NoStaleUpdate ==
    [][(diStale /\ last' = "DiFrame") => (diDt' = 0 /\ diState' = diState)]_vars

\* A frame of the loop of the game-over screen has run between playAgain and
\* the effect, with lastTimeRef set before playAgain cleared it.
C38_Witness ==
    /\ last = "DiFrame"
    /\ diStale
    /\ diState = "playing"
    /\ diCommitted = "gameover"
    /\ diFramed

(***************************************************************************)
(* Match-Three: the end of a cascade                                       *)
(***************************************************************************)
CaBusy == caAnim \in {"swapping", "clearing", "falling"}

Init ==
    /\ page \in Pages
    /\ last = "none"
    /\ SnakeInit
    /\ M3Init
    /\ SIInit
    /\ PRInit
    /\ FlInit
    /\ CbIdle
    /\ FmIdle /\ PlIdle /\ SsInit /\ FnIdle

Next ==
    \/ SnakeNext
    \/ M3Next
    \/ SINext
    \/ PRNext
    \/ FlNext

Spec == Init /\ [][Next]_vars

\* The Snake page alone.
InitSnake == Init /\ page = "snake"
SpecSnake == InitSnake /\ [][SnakeNext]_vars

\* The Match-Three page alone.
InitM3 == Init /\ page = "match3"
SpecM3 == InitM3 /\ [][M3Next]_vars

\* The Space Invaders page alone.
InitSI == Init /\ page = "invaders"
SpecSI == InitSI /\ [][SINext]_vars

\* The Pixel Runner page alone.
InitPR == Init /\ page = "runner"
SpecPR == InitPR /\ [][PRNext]_vars

\* The two pages whose update is driven by the time between frames.
InitTimed == Init /\ page \in {"invaders", "runner"}
NextTimed == SINext \/ PRNext
SpecTimed == InitTimed /\ [][NextTimed]_vars

\* The Flappy Bird page alone.
InitFl == Init /\ page = "flappy"
SpecFl == InitFl /\ [][FlNext]_vars

InitScenario ==
    /\ page = "snake" /\ last = "none"
    /\ ScnSnakeInit /\ M3Init /\ SIInit /\ PRInit /\ FlInit /\ CbIdle /\ FmIdle /\ PlIdle /\ SsInit /\ FnIdle
SpecScenario == InitScenario /\ [][ScnNext]_vars

\* One call of createBoard, from its first cell to its last.
InitCreateBoard ==
    /\ page = "match3" /\ last = "none"
    /\ SnakeInit /\ M3Init /\ SIInit /\ PRInit /\ FlInit /\ CbInit /\ FmIdle /\ PlIdle /\ SsInit /\ FnIdle
SpecCreateBoard == InitCreateBoard /\ [][CbNext]_vars

\* The formation of Space Invaders, step by step.
InitFormation ==
    /\ page = "invaders" /\ last = "none"
    /\ SnakeInit /\ M3Init /\ SIInit /\ PRInit /\ FlInit /\ CbIdle /\ FmInit /\ PlIdle /\ SsInit /\ FnIdle
SpecFormation == InitFormation /\ [][FmNext]_vars

\* The platform generation passes of Pixel Runner; a pass that has begun goes
\* on, the loop being straight-line code.
InitPlatforms ==
    /\ page = "runner" /\ last = "none"
    /\ SnakeInit /\ M3Init /\ SIInit /\ PRInit /\ FlInit /\ CbIdle /\ FmIdle /\ PlInit /\ SsInit /\ FnIdle
SpecPlatforms == InitPlatforms /\ [][PlNext]_vars /\ WF_vars(PlLoop)

\* Flappy Bird opened with localStorage holding no best score or a text that
\* is not a number.
InitCorrupt ==
    /\ page = "flappy" /\ last = "none"
    /\ SnakeInit /\ M3Init /\ SIInit /\ PRInit /\ FlMounted({NullItem, JunkItem})
    /\ CbIdle /\ FmIdle /\ PlIdle /\ SsInit /\ FnIdle
SpecCorrupt == InitCorrupt /\ [][FlNext]_vars

\* Snake from a board that is all but full.
InitFull ==
    /\ page = "snake" /\ last = "none"
    /\ FullSnakeInit /\ M3Init /\ SIInit /\ PRInit /\ FlInit
    /\ CbIdle /\ FmIdle /\ PlIdle /\ SsInit /\ FnIdle
SpecFull == InitFull /\ [][FullNext]_vars

\* The session of Snake alone: the menu, the state of the run and the timers.
InitSession ==
    /\ page = "snake"
    /\ last = "none"
    /\ SnakeInit /\ M3Init /\ SIInit /\ PRInit /\ FlInit /\ CbIdle /\ FmIdle /\ PlIdle /\ SsInit /\ FnIdle

SpecSession == InitSession /\ [][SsNext]_vars

\* One call of applyGravity, from its first column to its last.
InitGravity ==
    /\ page = "match3" /\ last = "none"
    /\ SnakeInit /\ M3Init /\ SIInit /\ PRInit /\ FlInit
    /\ CbIdle /\ FmIdle /\ PlIdle /\ SsInit /\ AgInit /\ WmIdle /\ EfIdle /\ DiIdle /\ CaIdle
SpecGravity == InitGravity /\ [][AgColumn]_vars

\* wouldMatch and findValidMove called on a board at rest.
InitWouldMatch ==
    /\ page = "match3" /\ last = "none"
    /\ SnakeInit /\ M3Init /\ SIInit /\ PRInit /\ FlInit
    /\ CbIdle /\ FmIdle /\ PlIdle /\ SsInit /\ AgIdle /\ WmInit /\ EfIdle /\ DiIdle /\ CaIdle
SpecWouldMatch == InitWouldMatch /\ [][WmNext]_vars

\* The aliens of Space Invaders, the enemy fire and the kills.
InitAliens ==
    /\ page = "invaders" /\ last = "none"
    /\ SnakeInit /\ M3Init /\ SIInit /\ PRInit /\ FlInit
    /\ CbIdle /\ FmIdle /\ PlIdle /\ SsInit /\ AgIdle /\ WmIdle /\ EfInit /\ DiIdle /\ CaIdle
SpecAliens == InitAliens /\ [][EfNext]_vars

\* Space Invaders and Pixel Runner: the handlers, the commits and the frames
\* around the deferred initialisation.
InitDeferred ==
    /\ page \in {"invaders", "runner"} /\ last = "none"
    /\ SnakeInit /\ M3Init /\ SIInit /\ PRInit /\ FlInit
    /\ CbIdle /\ FmIdle /\ PlIdle /\ SsInit /\ AgIdle /\ WmIdle /\ EfIdle /\ DiInit /\ CaIdle
SpecDeferred == InitDeferred /\ [][DiNext]_vars

\* The animation of Match-Three with frames that keep firing: the
\* animation under way comes to its end.
InitCascade ==
    /\ page = "match3" /\ last = "none"
    /\ SnakeInit /\ M3Init /\ SIInit /\ PRInit /\ FlInit
    /\ CbIdle /\ FmIdle /\ PlIdle /\ SsInit /\ AgIdle /\ WmIdle /\ EfIdle /\ DiIdle /\ CaInit
SpecCascade == InitCascade /\ [][CaNext]_vars /\ WF_vars(CaFrame)

====
